---------------------------- MODULE Spec2Model ----------------------------
(***************************************************************************)
(* A model of the result-rendering engine of payjp-cli                     *)
(* (src/internal/output/formatter.go).                                     *)
(*                                                                         *)
(* Text is a sequence of bytes.  An ASCII byte is written as the           *)
(* one-character string of its character ("a", "0", "-"); a byte of a      *)
(* multi-byte UTF-8 character is written as its two hex digits ("E3").     *)
(* Go's len(s) and s[:n] count and cut bytes, so a Go string is modelled   *)
(* by its byte sequence.                                                   *)
(*                                                                         *)
(* A reflect.Value is a record with a field kind; the other fields depend  *)
(* on the kind (see the constructors below).                               *)
(*                                                                         *)
(* The second part models one run of the command-line program around the   *)
(* engine (src/cmd, src/internal/config, src/internal/client,              *)
(* src/internal/util): the command line, the environment and the           *)
(* configuration file it starts with, the hooks cobra runs, the call of    *)
(* the API, the rendering of the result and the exit status.               *)
(***************************************************************************)
EXTENDS Integers, Sequences, FiniteSets, TLC

VARIABLES
    tz,         \* the process's local time zone, seconds east of UTC
    op,         \* the operation that ran last
    data,       \* its argument: a Go value
    format,     \* the format name given to Output / NewFormatter
    text,       \* the text formatFieldValue or extractID returned
    headers,    \* getTableHeaders' first result
    keys,       \* getTableHeaders' second result
    formatter,  \* the renderer NewFormatter returned
    stdout,     \* what the call wrote to standard output
    err,        \* the error the call returned ("nil": none)
    panicked,   \* the call ended in a run-time panic
    log,        \* the calls of the pure functions made so far, in this run
                \* of the program and in earlier ones, with their results
    pc,         \* where the run of the program stands ("idle": no run)
    argv,       \* the command line: the command, its arguments and flags
    env,        \* the environment variables PAYJP_*
    cfgfile,    \* the configuration file
    cfg,        \* package config's cfg
    client,     \* package client's client
    rerr,       \* the error rootCmd.Execute returned ("nil": none)
    exit,       \* the exit status of the process (-1: still running)
    apierr,     \* the error the API call returned, given to HandleError
    code,       \* the exit code HandleError returned (-1: not called)
    sent,       \* the API requests the run has sent, in order
    disk,       \* the directory of the configuration file: its entries
                \* and the content of the files they name
    procs       \* the processes running config.Save: where each stands,
                \* and what it wrote and returned

cliVars == <<pc, argv, env, cfgfile, cfg, client, rerr, exit, apierr, code, sent>>
saveVars == <<disk, procs>>
renderVars == <<op, data, format, text, headers, keys, formatter, stdout, err, panicked>>
vars == <<tz, op, data, format, text, headers, keys, formatter, stdout, err,
          panicked, log, pc, argv, env, cfgfile, cfg, client, rerr, exit,
          apierr, code, sent, disk, procs>>

-----------------------------------------------------------------------------
(* Bounds of the model *)

\* Integers are drawn from the window [limit - IntDelta, limit + IntDelta]
\* around each limit of the timestamp heuristic (and around 0).
IntDelta == 2
\* Strings have 0..MaxStrBytes bytes.
MaxStrBytes == 52
\* Record shapes have at most MaxFields declared fields.
MaxFields == 7
\* Records handed to Output have at most MaxRecFields declared fields.
MaxRecFields == 2
\* Collections handed to Output have at most MaxItems elements.
MaxItems == 3
\* The log of calls holds at most MaxCalls calls.
MaxCalls == 2

-----------------------------------------------------------------------------
(* Program constants *)

TsLow == 1000000000
TsHigh == 2000000000
StrLimit == 50
StrKeep == 47
FallbackFields == 6
\* util.ExitCode
MaskMinLen == 8
MaskPrefix == 7
MaskSuffix == 4
ExitSuccess == 0
ExitGeneralError == 1
ExitArgumentError == 2
ExitConfigError == 3
ExitAuthError == 4
ExitRequestError == 5
ExitPaymentError == 6
ExitNotFoundError == 7
ExitRateLimitError == 8
ExitServerError == 9

-----------------------------------------------------------------------------
(* Text *)

Digits == <<"0", "1", "2", "3", "4", "5", "6", "7", "8", "9">>
HexDigits == Digits \o <<"a", "b", "c", "d", "e", "f">>
Lower == <<"a", "b", "c", "d", "e", "f", "g", "h", "i", "j", "k", "l", "m",
           "n", "o", "p", "q", "r", "s", "t", "u", "v", "w", "x", "y", "z">>
Upper == <<"A", "B", "C", "D", "E", "F", "G", "H", "I", "J", "K", "L", "M",
           "N", "O", "P", "Q", "R", "S", "T", "U", "V", "W", "X", "Y", "Z">>

Range(s) == {s[i] : i \in 1..Len(s)}

IndexOf(c, s) == CHOOSE i \in 1..Len(s) : s[i] = c

\* strings.ToUpper / strings.ToLower on ASCII letters; other bytes are kept
UpperByte(c) == IF c \in Range(Lower) THEN Upper[IndexOf(c, Lower)] ELSE c
LowerByte(c) == IF c \in Range(Upper) THEN Lower[IndexOf(c, Upper)] ELSE c
ToUpper(s) == [i \in 1..Len(s) |-> UpperByte(s[i])]
ToLower(s) == [i \in 1..Len(s) |-> LowerByte(s[i])]

\* fmt's %d of a non-negative integer
RECURSIVE Itoa(_)
Itoa(n) == IF n < 10 THEN <<Digits[n + 1]>>
           ELSE Itoa(n \div 10) \o <<Digits[(n % 10) + 1]>>

\* fmt.Sprintf("%d", n)
FormatInt(n) == IF n < 0 THEN <<"-">> \o Itoa(-n) ELSE Itoa(n)

\* fmt.Sprintf("%.2f", x) for x = h/100
FormatFloat2(h) ==
    LET a == IF h < 0 THEN -h ELSE h
    IN  (IF h < 0 THEN <<"-">> ELSE <<>>) \o Itoa(a \div 100)
        \o <<".", Digits[((a \div 10) % 10) + 1], Digits[(a % 10) + 1]>>

Pad2(n) == <<Digits[((n \div 10) % 10) + 1], Digits[(n % 10) + 1]>>
Pad4(n) == Pad2(n \div 100) \o Pad2(n % 100)

\* The civil date of a day number (days since 1970-01-01), as
\* time.Time.Format computes it for the proleptic Gregorian calendar.
CivilFromDays(days) ==
    LET z   == days + 719468
        era == z \div 146097
        doe == z - era * 146097
        yoe == (doe - doe \div 1460 + doe \div 36524 - doe \div 146096) \div 365
        doy == doe - (365 * yoe + yoe \div 4 - yoe \div 100)
        mp  == (5 * doy + 2) \div 153
        d   == doy - (153 * mp + 2) \div 5 + 1
        m   == IF mp < 10 THEN mp + 3 ELSE mp - 9
        y   == yoe + era * 400 + (IF m <= 2 THEN 1 ELSE 0)
    IN  [year |-> y, month |-> m, day |-> d]

\* time.Unix(sec, 0).Format("2006-01-02 15:04:05") in the zone `off`
TimeFormat(sec, off) ==
    LET local == sec + off
        date  == CivilFromDays(local \div 86400)
        rest  == local % 86400
    IN  Pad4(date.year) \o <<"-">> \o Pad2(date.month) \o <<"-">> \o Pad2(date.day)
        \o <<" ">> \o Pad2(rest \div 3600) \o <<":">> \o Pad2((rest \div 60) % 60)
        \o <<":">> \o Pad2(rest % 60)

\* fmt's %v of an address
RECURSIVE Hex(_)
Hex(n) == IF n < 16 THEN <<HexDigits[n + 1]>>
          ELSE Hex(n \div 16) \o <<HexDigits[(n % 16) + 1]>>
FormatAddr(a) == <<"0", "x">> \o Hex(a)

NilAngle == <<"<", "n", "i", "l", ">">>
Ellipsis == <<".", ".", ".">>
Braces == <<"{", ".", ".", ".", "}">>

-----------------------------------------------------------------------------
(* Go values as reflect sees them *)

VInvalid == [kind |-> "invalid"]
VBool(b) == [kind |-> "bool", b |-> b]
VInt(n) == [kind |-> "int", n |-> n]
VUint(n) == [kind |-> "uint", n |-> n]
VFloat(h) == [kind |-> "float", h |-> h]
VStr(s) == [kind |-> "string", s |-> s]
VNilPtr == [kind |-> "ptr", nil |-> TRUE]
VPtr(e) == [kind |-> "ptr", nil |-> FALSE, elem |-> e, addr |-> 49152]
VNilIface == [kind |-> "interface", nil |-> TRUE]
VIface(e) == [kind |-> "interface", nil |-> FALSE, elem |-> e]
VTime(sec) == [kind |-> "struct", isTime |-> TRUE, sec |-> sec]
VStruct(fs) == [kind |-> "struct", isTime |-> FALSE, fields |-> fs]
VMap(n) == [kind |-> "map", len |-> n]
VSlice(et, es) == [kind |-> "slice", elemType |-> et, elems |-> es]
VNilChan == [kind |-> "chan", nil |-> TRUE]
VChan == [kind |-> "chan", nil |-> FALSE, addr |-> 49408]

\* reflect.Value.Len of a map or slice
ValueLen(v) == IF v.kind = "map" THEN v.len ELSE Len(v.elems)

\* A declared field of a struct: its Go name, its json tag and its value
Field(name, tag, val) == [name |-> name, tag |-> tag, val |-> val]

\* reflect.StructField.IsExported: the name starts with an upper-case letter
IsExported(f) == f.name[1] \in Range(Upper)

-----------------------------------------------------------------------------
(* fmt.Sprintf("%v", x.Interface()) for the kinds formatFieldValue leaves to it *)

RECURSIVE Sprint(_)
Sprint(v) ==
    CASE v.kind = "invalid" -> NilAngle
      [] v.kind = "interface" -> IF v.nil THEN NilAngle ELSE Sprint(v.elem)
      [] v.kind \in {"ptr", "chan"} -> IF v.nil THEN NilAngle ELSE FormatAddr(v.addr)
      [] v.kind = "bool" -> IF v.b THEN <<"t", "r", "u", "e">>
                            ELSE <<"f", "a", "l", "s", "e">>
      [] v.kind \in {"int", "uint"} -> FormatInt(v.n)
      [] v.kind = "string" -> v.s

-----------------------------------------------------------------------------
(* formatFieldValue: the display text of a field value *)

\* (the heuristic with its lower limit included)
IsTimestamp_HalfOpen(n) == n >= TsLow /\ n < TsHigh

\* The integers taken for Unix times
IsTimestamp(n) == n > TsLow /\ n < TsHigh

\* The text of a string: cut to StrKeep bytes and "..." when it is longer
\* than StrLimit bytes (len and the slice expression count bytes)
Truncate(s) ==
    IF Len(s) > StrLimit THEN SubSeq(s, 1, StrKeep) \o Ellipsis ELSE s

formatFieldValue(v0, off) ==
    IF v0.kind = "invalid" THEN <<>>
    ELSE IF v0.kind = "ptr" /\ v0.nil THEN <<>>
    ELSE
      LET v == IF v0.kind = "ptr" THEN v0.elem ELSE v0
      IN  CASE v.kind = "bool" -> Sprint(v)
            [] v.kind = "int" ->
                 IF IsTimestamp(v.n)
                 THEN TimeFormat(v.n, off)
                 ELSE FormatInt(v.n)
            [] v.kind = "uint" -> FormatInt(v.n)
            [] v.kind = "float" -> FormatFloat2(v.h)
            [] v.kind = "string" -> Truncate(v.s)
            [] v.kind = "struct" ->
                 IF v.isTime THEN TimeFormat(v.sec, off) ELSE Braces
            [] v.kind \in {"map", "slice"} ->
                 IF ValueLen(v) = 0 THEN <<>>
                 ELSE <<"[">> \o FormatInt(ValueLen(v))
                      \o <<" ", "i", "t", "e", "m", "s", "]">>
            [] OTHER -> Sprint(v)

-----------------------------------------------------------------------------
(* Struct shapes *)

\* The fields of a struct value; time.Time declares three unexported fields
TimeFields == << Field(<<"w", "a", "l", "l">>, <<>>, VUint(0)),
                 Field(<<"e", "x", "t">>, <<>>, VInt(0)),
                 Field(<<"l", "o", "c">>, <<>>, VNilPtr) >>
StructFields(v) == IF v.isTime THEN TimeFields ELSE v.fields

\* reflect.Type.FieldByName / reflect.Value.FieldByName: the position of the
\* field with that name, 0 when there is none (field names of a struct are
\* distinct; promoted fields of embedded structs are not modelled)
FieldIndex(fs, name) ==
    IF \E i \in 1..Len(fs) : fs[i].name = name
    THEN CHOOSE i \in 1..Len(fs) : fs[i].name = name
    ELSE 0

\* reflect.Value.Elem of a pointer: the zero Value for a nil pointer
Elem(v) == IF v.nil THEN VInvalid ELSE v.elem

\* strings.Split(tag, ",")[0]
RECURSIVE FirstPart(_)
FirstPart(tag) ==
    IF tag = <<>> \/ Head(tag) = "," THEN <<>>
    ELSE <<Head(tag)>> \o FirstPart(Tail(tag))

\* toSnakeCase: an underscore before every upper-case letter but the first
\* byte, then lower-cased
RECURSIVE SnakeFrom(_, _)
SnakeFrom(s, i) ==
    IF i > Len(s) THEN <<>>
    ELSE (IF i > 1 /\ s[i] \in Range(Upper) THEN <<"_", s[i]>> ELSE <<s[i]>>)
         \o SnakeFrom(s, i + 1)
\* (the identifier lower-cased without underscores)
toSnakeCase_NoUnderscore(s) == ToLower(s)
toSnakeCase(s) == ToLower(SnakeFrom(s, 1))

\* getFieldName: the json tag's name when it has one, else the snake-cased
\* identifier
getFieldName(f) ==
    IF f.tag # <<>> /\ FirstPart(f.tag) # <<>> /\ FirstPart(f.tag) # <<"-">>
    THEN FirstPart(f.tag)
    ELSE toSnakeCase(f.name)

\* (the priority list with Amount ahead of ID)
commonFields_AmountFirst ==
    << <<"A", "m", "o", "u", "n", "t">>,
       <<"I", "D">>,
       <<"C", "u", "r", "r", "e", "n", "c", "y">>,
       <<"S", "t", "a", "t", "u", "s">>,
       <<"P", "a", "i", "d">>,
       <<"C", "a", "p", "t", "u", "r", "e", "d">>,
       <<"R", "e", "f", "u", "n", "d", "e", "d">>,
       <<"E", "m", "a", "i", "l">>,
       <<"D", "e", "s", "c", "r", "i", "p", "t", "i", "o", "n">>,
       <<"N", "a", "m", "e">>,
       <<"I", "n", "t", "e", "r", "v", "a", "l">>,
       <<"C", "r", "e", "a", "t", "e", "d", "A", "t">>,
       <<"C", "r", "e", "a", "t", "e", "d">> >>

\* The priority list of getTableHeaders
commonFields ==
    << <<"I", "D">>,
       <<"A", "m", "o", "u", "n", "t">>,
       <<"C", "u", "r", "r", "e", "n", "c", "y">>,
       <<"S", "t", "a", "t", "u", "s">>,
       <<"P", "a", "i", "d">>,
       <<"C", "a", "p", "t", "u", "r", "e", "d">>,
       <<"R", "e", "f", "u", "n", "d", "e", "d">>,
       <<"E", "m", "a", "i", "l">>,
       <<"D", "e", "s", "c", "r", "i", "p", "t", "i", "o", "n">>,
       <<"N", "a", "m", "e">>,
       <<"I", "n", "t", "e", "r", "v", "a", "l">>,
       <<"C", "r", "e", "a", "t", "e", "d", "A", "t">>,
       <<"C", "r", "e", "a", "t", "e", "d">> >>

Min(a, b) == IF a < b THEN a ELSE b

\* (the fallback without its limit of six fields)
FallbackWindow_All(fs) == fs
\* (the fallback with its loop started at the second field)
FallbackWindow_SkipFirst(fs) == SubSeq(fs, 2, Min(Len(fs), FallbackFields))

\* The fields the fallback of getTableHeaders looks at: the loop runs while
\* i < t.NumField() && i < 6
FallbackWindow(fs) == SubSeq(fs, 1, Min(Len(fs), FallbackFields))

\* getTableHeaders: (headers, keys) of the list view; (nil, nil) for a value
\* that is not a struct
getTableHeaders(v) ==
    IF v.kind # "struct" THEN [headers |-> <<>>, keys |-> <<>>]
    ELSE
      LET fs     == StructFields(v)
          Hit(n) == FieldIndex(fs, n) # 0 /\ IsExported(fs[FieldIndex(fs, n)])
          common == SelectSeq(commonFields, Hit)
          shown  == IF Len(common) > 0
                    THEN [i \in 1..Len(common) |-> fs[FieldIndex(fs, common[i])]]
                    ELSE SelectSeq(FallbackWindow(fs), IsExported)
      IN  [headers |-> [i \in 1..Len(shown) |-> ToUpper(getFieldName(shown[i]))],
           keys    |-> [i \in 1..Len(shown) |-> shown[i].name]]

-----------------------------------------------------------------------------
(* The renderers.  A render call yields what it wrote to standard output   *)
(* (a sequence of lines, tables and documents), the error it returned and   *)
(* whether it panicked.  A table is kept as the header and rows handed to   *)
(* tablewriter; its drawing is the library's.                               *)

NoError == [msg |-> "nil", kind |-> ""]
ExpectedStruct(k) == [msg |-> "expected struct, got %v", kind |-> k]
Unsupported(k) == [msg |-> "json: unsupported type", kind |-> k]

Line(t) == [kind |-> "line", text |-> t]
Table(h, rows) == [kind |-> "table", header |-> h, rows |-> rows]
Document(syntax, doc) == [kind |-> syntax, doc |-> doc]

Returned(out, e) == [stdout |-> out, err |-> e, panicked |-> FALSE]
Panic == [stdout |-> <<>>, err |-> NoError, panicked |-> TRUE]

NoItemsFound == <<"N", "o", " ", "i", "t", "e", "m", "s", " ",
                  "f", "o", "u", "n", "d", ".">>
\* (the count line stating the last index instead of the length)
TotalLine_LastIndex(n) == <<"T", "o", "t", "a", "l", ":", " ">> \o FormatInt(n - 1)
                          \o <<" ", "i", "t", "e", "m", "s">>
\* fmt.Printf("Total: %d items\n", n)
TotalLine(n) == <<"T", "o", "t", "a", "l", ":", " ">> \o FormatInt(n)
                \o <<" ", "i", "t", "e", "m", "s">>

\* getTableRow: one cell per key; reflect.Value.FieldByName panics on a Value
\* that is not a struct
getTableRow(v, ks, off) ==
    IF ks # <<>> /\ v.kind # "struct" THEN [panicked |-> TRUE, row |-> <<>>]
    ELSE [panicked |-> FALSE,
          row |-> [i \in 1..Len(ks) |->
                     LET k == FieldIndex(StructFields(v), ks[i])
                     IN  IF k # 0
                         THEN formatFieldValue(StructFields(v)[k].val, off)
                         ELSE <<>>]]

\* (an empty collection drawn as a table without rows)
EmptyOutput_Table == <<Table(<<>>, <<>>), Line(TotalLine(0))>>
\* What formatSlice writes for an empty collection
EmptyOutput == <<Line(NoItemsFound)>>

\* (every row taken from the first element)
Item_AlwaysFirst(v, i) == IF v.elems[1].kind = "ptr" THEN Elem(v.elems[1]) ELSE v.elems[1]
\* v.Index(i), followed through one pointer
Item(v, i) == IF v.elems[i].kind = "ptr" THEN Elem(v.elems[i]) ELSE v.elems[i]

\* TableFormatter.formatSlice
formatSlice(v, off) ==
    IF Len(v.elems) = 0 THEN Returned(EmptyOutput, NoError)
    ELSE
      LET hk   == getTableHeaders(Item(v, 1))
          rows == [i \in 1..Len(v.elems) |-> getTableRow(Item(v, i), hk.keys, off)]
      IN  IF \E i \in 1..Len(rows) : rows[i].panicked THEN Panic
          ELSE Returned(<< Table(hk.headers, [i \in 1..Len(rows) |-> rows[i].row]),
                           Line(TotalLine(Len(v.elems))) >>, NoError)

FieldValueHeader == << <<"F", "I", "E", "L", "D">>, <<"V", "A", "L", "U", "E">> >>

\* (the detail view limited to the fields of the fallback)
DetailFields_FirstSix(fs) == SelectSeq(FallbackWindow(fs), IsExported)
\* The fields formatSingle shows: its loop runs over every field and skips
\* the ones that are not exported
DetailFields(fs) == SelectSeq(fs, IsExported)

\* TableFormatter.formatSingle
formatSingle(v0, off) ==
    LET v == IF v0.kind = "ptr" THEN Elem(v0) ELSE v0
    IN  IF v.kind # "struct" THEN Returned(<<>>, ExpectedStruct(v.kind))
        ELSE
          LET shown == DetailFields(StructFields(v))
          IN  Returned(<< Table(FieldValueHeader,
                               [i \in 1..Len(shown) |->
                                  << getFieldName(shown[i]),
                                     formatFieldValue(shown[i].val, off) >>]) >>,
                       NoError)

\* TableFormatter.Format
TableFormat(d, off) ==
    LET v == IF d.kind = "ptr" THEN Elem(d) ELSE d
    IN  IF v.kind = "slice" THEN formatSlice(v, off) ELSE formatSingle(v, off)

\* (the identifier names tried from the last to the first)
IDNames_LowerFirst == << <<"i", "d">>, <<"I", "d">>, <<"I", "D">> >>
\* The field names extractID tries, in its order
IDNames == << <<"I", "D">>, <<"I", "d">>, <<"i", "d">> >>
\* extractID
extractID(d) ==
    LET v == IF d.kind = "ptr" THEN Elem(d) ELSE d
    IN  IF v.kind # "struct" THEN <<>>
        ELSE
          LET fs     == StructFields(v)
              Hit(n) == FieldIndex(fs, n) # 0 /\ fs[FieldIndex(fs, n)].val.kind = "string"
              found  == SelectSeq(IDNames, Hit)
          IN  IF found = <<>> THEN <<>> ELSE fs[FieldIndex(fs, found[1])].val.s

\* QuietFormatter.Format
QuietFormat(d) ==
    IF extractID(d) # <<>> THEN Returned(<<Line(extractID(d))>>, NoError)
    ELSE Returned(<<>>, NoError)

-----------------------------------------------------------------------------
(* The structured renderers: encoding/json and yaml.v3 walk the value and  *)
(* write a document, kept here as the tree of what was written.            *)

\* time.Time's MarshalJSON: RFC 3339 in the value's zone
TimeRFC3339(sec, off) ==
    LET t == TimeFormat(sec, off)
        a == IF off < 0 THEN -off ELSE off
    IN  SubSeq(t, 1, 10) \o <<"T">> \o SubSeq(t, 12, 19)
        \o (IF off = 0 THEN <<"Z">>
            ELSE <<(IF off < 0 THEN "-" ELSE "+")>> \o Pad2(a \div 3600)
                 \o <<":">> \o Pad2((a \div 60) % 60))

\* strconv's shortest text of x = h/100, as both encoders write a float of
\* this size: no exponent, no trailing zeros
FormatFloatShortest(h) ==
    LET a     == IF h < 0 THEN -h ELSE h
        whole == (IF h < 0 THEN <<"-">> ELSE <<>>) \o Itoa(a \div 100)
    IN  IF a % 100 = 0 THEN whole
        ELSE IF a % 10 = 0 THEN whole \o <<".", Digits[((a \div 10) % 10) + 1]>>
        ELSE whole \o <<".", Digits[((a \div 10) % 10) + 1], Digits[(a % 10) + 1]>>

\* The tag's options: what follows its first comma
RECURSIVE TagOptions(_)
TagOptions(tag) ==
    IF tag = <<>> THEN <<>>
    ELSE IF Head(tag) = "," THEN Tail(tag)
    ELSE TagOptions(Tail(tag))
OmitEmpty(f) == TagOptions(f.tag) = <<"o", "m", "i", "t", "e", "m", "p", "t", "y">>

\* (every value taken for empty)
IsEmptyValue_Always(v) == TRUE
\* encoding/json's isEmptyValue
IsEmptyValue(v) ==
    CASE v.kind = "bool" -> ~v.b
      [] v.kind \in {"int", "uint"} -> v.n = 0
      [] v.kind = "float" -> v.h = 0
      [] v.kind = "string" -> v.s = <<>>
      [] v.kind \in {"map", "slice"} -> ValueLen(v) = 0
      [] v.kind \in {"ptr", "interface", "chan"} -> v.nil
      [] OTHER -> FALSE

\* The member name of a field: json takes the tag's name and falls back to
\* the Go name; yaml.v3 reads only yaml tags and lower-cases the Go name
MemberKey(f, syntax) ==
    IF syntax = "json"
    THEN IF FirstPart(f.tag) # <<>> THEN FirstPart(f.tag) ELSE f.name
    ELSE ToLower(f.name)

\* The fields an encoder writes
Written(f, syntax) ==
    /\ IsExported(f)
    /\ syntax = "json" => /\ f.tag # <<"-">>
                          /\ ~(OmitEmpty(f) /\ IsEmptyValue(f.val))

\* Whether the encoder accepts the value (a channel is an unsupported type)
RECURSIVE Encodable(_, _)
Encodable(v, syntax) ==
    CASE v.kind = "chan" -> FALSE
      [] v.kind \in {"ptr", "interface"} -> v.nil \/ Encodable(v.elem, syntax)
      [] v.kind = "slice" ->
           \A i \in 1..Len(v.elems) : Encodable(v.elems[i], syntax)
      [] v.kind = "struct" /\ ~v.isTime ->
           \A i \in 1..Len(v.fields) :
              Written(v.fields[i], syntax) => Encodable(v.fields[i].val, syntax)
      [] OTHER -> TRUE

RECURSIVE Encode(_, _, _)
Encode(v, syntax, off) ==
    CASE v.kind = "invalid" -> [t |-> "null"]
      [] v.kind \in {"ptr", "interface"} ->
           IF v.nil THEN [t |-> "null"] ELSE Encode(v.elem, syntax, off)
      [] v.kind = "bool" -> [t |-> "bool", b |-> v.b]
      [] v.kind \in {"int", "uint"} -> [t |-> "number", text |-> FormatInt(v.n)]
      [] v.kind = "float" -> [t |-> "number", text |-> FormatFloatShortest(v.h)]
      [] v.kind = "string" -> [t |-> "string", s |-> v.s]
      [] v.kind = "map" -> [t |-> "object", size |-> v.len]
      [] v.kind = "slice" ->
           [t |-> "array",
            items |-> [i \in 1..Len(v.elems) |-> Encode(v.elems[i], syntax, off)]]
      [] v.kind = "struct" /\ v.isTime ->
           [t |-> "string", s |-> TimeRFC3339(v.sec, off)]
      [] v.kind = "struct" /\ ~v.isTime ->
           LET Keep(f) == Written(f, syntax)
               fs == SelectSeq(v.fields, Keep)
           IN  [t |-> "object",
                members |-> [i \in 1..Len(fs) |->
                               [key |-> MemberKey(fs[i], syntax),
                                val |-> Encode(fs[i].val, syntax, off)]]]

\* JSONFormatter.Format
JSONFormat(d, off) ==
    IF Encodable(d, "json") THEN Returned(<<Document("json", Encode(d, "json", off))>>, NoError)
    ELSE Returned(<<>>, Unsupported("chan"))

\* YAMLFormatter.Format
YAMLFormat(d, off) ==
    IF Encodable(d, "yaml") THEN Returned(<<Document("yaml", Encode(d, "yaml", off))>>, NoError)
    ELSE Returned(<<>>, Unsupported("chan"))

-----------------------------------------------------------------------------
(* The dispatcher *)

\* (the format name matched without regard to letter case)
NewFormatter_AnyCase(f) ==
    CASE f \in {"json", "JSON"} -> "JSONFormatter"
      [] f = "yaml" -> "YAMLFormatter"
      [] f \in {"quiet", "Quiet"} -> "QuietFormatter"
      [] OTHER -> "TableFormatter"

\* NewFormatter: the renderer of a format name
NewFormatter(f) ==
    CASE f = "json" -> "JSONFormatter"
      [] f = "yaml" -> "YAMLFormatter"
      [] f = "quiet" -> "QuietFormatter"
      [] OTHER -> "TableFormatter"

\* Formatter.Format of the renderer r
Render(r, d, off) ==
    CASE r = "JSONFormatter" -> JSONFormat(d, off)
      [] r = "YAMLFormatter" -> YAMLFormat(d, off)
      [] r = "QuietFormatter" -> QuietFormat(d)
      [] r = "TableFormatter" -> TableFormat(d, off)

-----------------------------------------------------------------------------
(* The values the operations are run on *)

\* Local time zones of the process: UTC, Asia/Tokyo, America/New_York (EST)
TimeZones == {0, 32400, -18000}

IntSamples ==
    {b + d : b \in {0, TsLow, TsHigh}, d \in (-IntDelta)..IntDelta}
    \cup {1234567890, -1234567890, 86400}

\* n ASCII letters, a b c ...
AsciiText(n) == [i \in 1..n |-> Lower[((i - 1) % 26) + 1]]
\* k three-byte characters (hiragana a, i, a, i ...), 3k bytes
WideText(k) ==
    [i \in 1..(3 * k) |->
        CASE i % 3 = 1 -> "E3"
          [] i % 3 = 2 -> "81"
          [] OTHER -> IF ((i - 1) \div 3) % 2 = 0 THEN "82" ELSE "84"]
\* Bytes that continue a multi-byte character
ContinuationBytes == {"81", "82", "84"}
\* utf8.RuneCountInString of valid UTF-8: the bytes that start a character
RuneCount(s) == Cardinality({i \in 1..Len(s) : s[i] \notin ContinuationBytes})

\* Strings of up to MaxStrBytes bytes: ASCII letters followed by wide characters
StringSamples ==
    {AsciiText(q[1]) \o WideText(q[2]) :
        q \in {r \in (0..MaxStrBytes) \X (0..(MaxStrBytes \div 3)) :
                 r[1] + 3 * r[2] <= MaxStrBytes}}

FieldValues ==
    {VInt(n) : n \in IntSamples}
    \cup {VPtr(VInt(n)) : n \in IntSamples}
    \cup {VStr(t) : t \in StringSamples}
    \cup {VPtr(VStr(AsciiText(n))) : n \in {0, StrLimit, StrLimit + 1}}
    \cup {VUint(n) : n \in {0, 7, 1234567890}}
    \cup {VFloat(h) : h \in {0, 5, 150, -1999, 123456}}
    \cup {VBool(b) : b \in BOOLEAN}
    \cup {VTime(n) : n \in {0, 86399, 951782400, 1234567890}}
    \cup {VMap(n) : n \in 0..2}
    \cup {VSlice("int", [i \in 1..n |-> VInt(i)]) : n \in 0..2}
    \cup {VInvalid, VNilPtr, VNilIface, VNilChan, VChan, VStruct(<<>>),
          VIface(VInt(5)), VIface(VStr(AsciiText(StrLimit + 1))),
          VPtr(VNilPtr), VPtr(VPtr(VInt(5))), VPtr(VNilIface)}

\* The declarations record shapes are made of, in declaration order: the Go
\* name and the json tag.  ID, Amount, Currency, Status and Created are on
\* the priority list; raw and service are unexported.  Seven of the others
\* are exported, so that a shape can declare more exported fields than the
\* fallback shows.
Menu ==
    << [name |-> <<"O", "b", "j", "e", "c", "t">>, tag |-> <<"o", "b", "j", "e", "c", "t">>],
       [name |-> <<"L", "i", "v", "e", "m", "o", "d", "e">>, tag |-> <<"l", "i", "v", "e", "m", "o", "d", "e">>],
       [name |-> <<"C", "r", "e", "a", "t", "e", "d">>, tag |-> <<"c", "r", "e", "a", "t", "e", "d">>],
       [name |-> <<"r", "a", "w">>, tag |-> <<>>],
       [name |-> <<"A", "m", "o", "u", "n", "t">>, tag |-> <<"a", "m", "o", "u", "n", "t">>],
       [name |-> <<"S", "t", "a", "t", "u", "s">>, tag |-> <<"s", "t", "a", "t", "u", "s", ",", "o", "m", "i", "t", "e", "m", "p", "t", "y">>],
       [name |-> <<"I", "D">>, tag |-> <<"i", "d">>],
       [name |-> <<"C", "a", "r", "d">>, tag |-> <<",", "o", "m", "i", "t", "e", "m", "p", "t", "y">>],
       [name |-> <<"M", "e", "t", "a", "d", "a", "t", "a">>, tag |-> <<"-">>],
       [name |-> <<"s", "e", "r", "v", "i", "c", "e">>, tag |-> <<>>],
       [name |-> <<"F", "a", "i", "l", "u", "r", "e", "C", "o", "d", "e">>, tag |-> <<>>],
       [name |-> <<"C", "u", "r", "r", "e", "n", "c", "y">>, tag |-> <<"c", "u", "r", "r", "e", "n", "c", "y">>],
       [name |-> <<"C", "u", "s", "t", "o", "m", "e", "r">>, tag |-> <<"c", "u", "s", "t", "o", "m", "e", "r">>],
       [name |-> <<"R", "e", "f", "u", "n", "d", "s">>, tag |-> <<"r", "e", "f", "u", "n", "d", "s">>] >>

\* The value of declaration m in the j-th record of a result
MenuValue(m, j) ==
    CASE m = 1 -> VStr(<<"c", "h", "a", "r", "g", "e">>)
      [] m = 2 -> VBool(j % 2 = 0)
      [] m = 3 -> VPtr(VInt(1500000000 + j))
      [] m = 4 -> VStr(<<"{", "}">>)
      [] m = 5 -> VInt(1000 * j)
      [] m = 6 -> IF j % 2 = 1 THEN VStr(<<"p", "a", "i", "d">>) ELSE VStr(<<>>)
      [] m = 7 -> VStr(<<"c", "h", "_">> \o FormatInt(j))
      [] m = 8 -> VStruct(<< Field(<<"L", "a", "s", "t", "4">>, <<"l", "a", "s", "t", "4">>,
                                   VStr(<<"4", "2", "4", "2">>)) >>)
      [] m = 9 -> VMap(j % 2)
      [] m = 10 -> VNilPtr
      [] m = 11 -> IF j % 2 = 1 THEN VNilPtr ELSE VPtr(VStr(<<"e", "x", "p">>))
      [] m = 12 -> VStr(<<"j", "p", "y">>)
      [] m = 13 -> IF j % 2 = 1 THEN VNilIface ELSE VIface(VInt(7))
      [] m = 14 -> VSlice("int", [i \in 1..(j % 3) |-> VInt(i)])

\* The declarations picked by the set of positions S, in menu order or reversed
Ordered(S, reversed) ==
    [i \in 1..Cardinality(S) |->
        CHOOSE m \in S :
            Cardinality({k \in S : IF reversed THEN k > m ELSE k < m}) = i - 1]

\* The j-th record of the shape (S, reversed)
Record(S, reversed, j) ==
    LET ms == Ordered(S, reversed)
    IN  VStruct([i \in 1..Len(ms) |->
                   Field(Menu[ms[i]].name, Menu[ms[i]].tag, MenuValue(ms[i], j))])

Picks(n) == {S \in SUBSET (1..Len(Menu)) : Cardinality(S) <= n}
\* The shapes of the results handed to Output use the first half of the menu
RecPicks(n) == {S \in SUBSET (1..(Len(Menu) \div 2)) : Cardinality(S) <= n}

\* The values getTableHeaders is run on: records of every shape, and values
\* that are not records
ShapeValues ==
    {Record(S, r, 1) : S \in Picks(MaxFields), r \in BOOLEAN}
    \cup {VInvalid, VInt(5), VMap(1), VIface(Record({7}, FALSE, 1))}

\* Collections of n records of one shape.  A typed slice holds structs, or
\* pointers to structs (the pointer at position nilAt is nil; 0: none), or
\* interface values holding structs.
Collection(S, r, n, et, nilAt) ==
    VSlice(et, [j \in 1..n |->
                  CASE et = "struct" -> Record(S, r, j)
                    [] et = "ptr" -> IF j = nilAt THEN VNilPtr ELSE VPtr(Record(S, r, j))
                    [] et = "interface" -> VIface(Record(S, r, j))])

Collections ==
    {Collection(S, r, n, "struct", 0) :
        S \in RecPicks(MaxRecFields), r \in BOOLEAN, n \in 0..MaxItems}
    \cup {Collection(S, FALSE, q[1], "ptr", q[2]) :
            S \in RecPicks(MaxRecFields),
            q \in {x \in (0..MaxItems) \X (0..MaxItems) : x[2] <= x[1]}}
    \cup {Collection(S, FALSE, n, "interface", 0) :
            S \in RecPicks(1), n \in 0..MaxItems}
    \cup {VSlice("int", [j \in 1..n |-> VInt(j)]) : n \in 0..MaxItems}
    \cup {VSlice("string", [j \in 1..n |-> VStr(AsciiText(j))]) : n \in 0..MaxItems}

\* Records of larger shapes: one with eight exported fields, one of the
\* second half of the menu, one with unexported fields only, one with
\* optional fields; and a record with a point in time
DetailShapes == {{1, 2, 3, 5, 6, 7, 8, 9}, {8, 9, 10, 11, 12, 13, 14}, {4, 10}, {6, 11, 13}}
TimedRecord ==
    VStruct(<< Field(<<"I", "D">>, <<"i", "d">>, VStr(<<"e", "v", "n", "t", "_", "1">>)),
               Field(<<"C", "r", "e", "a", "t", "e", "d", "A", "t">>, <<>>, VTime(1234567890)),
               Field(<<"r", "a", "w">>, <<>>, VStr(<<"{", "}">>)) >>)
DetailRecords ==
    {Record(S, r, j) : S \in DetailShapes, r \in BOOLEAN, j \in 1..2}
    \cup {TimedRecord, VPtr(TimedRecord)}

\* What a command hands to Output: a record, a pointer to one, a collection,
\* a pointer to one, and the values that are neither
Results ==
    {Record(S, r, 1) : S \in RecPicks(MaxRecFields), r \in BOOLEAN}
    \cup DetailRecords
    \cup {VPtr(Record(S, FALSE, 1)) : S \in RecPicks(MaxRecFields)}
    \cup {VPtr(VPtr(Record(S, FALSE, 1))) : S \in RecPicks(1)}
    \cup Collections
    \cup {VPtr(c) : c \in {d \in Collections : d.elemType \in {"ptr", "int"}}}
    \cup {VInvalid, VNilPtr, VPtr(VNilPtr), VMap(0), VMap(2), VInt(5), VBool(TRUE),
          VStr(AsciiText(3)), VTime(86400), VChan}

\* The values extractID is run on.  A record declares each of the fields
\* ID, Id and id in one of these ways (c[k] for the k-th name): 0 not at
\* all, 1 as a string, 2 as an integer, 3 as a pointer to a string, 4 as an
\* empty string; the fields are declared in that order or reversed.
IDFieldNames == << <<"I", "D">>, <<"I", "d">>, <<"i", "d">> >>
IDFieldValue(k, variant) ==
    CASE variant = 1 -> VStr(<<"c", "h", "_">> \o FormatInt(k))
      [] variant = 2 -> VInt(40 + k)
      [] variant = 3 -> VPtr(VStr(<<"p", "_">> \o FormatInt(k)))
      [] variant = 4 -> VStr(<<>>)
IDRecord(c, reversed) ==
    LET S  == {k \in 1..3 : c[k] # 0}
        ks == Ordered(S, reversed)
    IN  VStruct([i \in 1..Len(ks) |->
                   Field(IDFieldNames[ks[i]], <<>>, IDFieldValue(ks[i], c[ks[i]]))])
IDRecords == {IDRecord(c, r) : c \in [1..3 -> 0..4], r \in BOOLEAN}
IDValues ==
    IDRecords
    \cup {VPtr(R) : R \in IDRecords}
    \cup {VPtr(VPtr(IDRecord([k \in 1..3 |-> 1], FALSE)))}
    \cup {Record(S, r, 1) : S \in RecPicks(MaxRecFields), r \in BOOLEAN}
    \cup {VSlice("struct", <<IDRecord([k \in 1..3 |-> 1], FALSE)>>)}
    \cup {VInvalid, VNilPtr, VInt(5), VStr(<<"i", "d">>), VMap(2), VTime(86400)}

\* Format names: the four the program knows, and others
FormatNames == {"json", "yaml", "quiet", "table", "", "JSON", "Quiet", "csv"}

-----------------------------------------------------------------------------
(* The state machine.  A run of the command-line program renders one       *)
(* result and exits: from the initial state one operation of the package   *)
(* runs on one input, and the state records what it returned and wrote.    *)

NoHeaders == [headers |-> <<>>, keys |-> <<>>]
Nothing == Returned(<<>>, NoError)

\* The command line, environment and configuration of no run
NoArgv == [kind |-> "", nargs |-> 0, amountSet |-> FALSE, amount |-> 0,
           currency |-> <<>>, interval |-> <<>>, since |-> <<>>, quiet |-> FALSE,
           output |-> <<>>, apiKey |-> ""]
NoEnv == [PAYJP_OUTPUT |-> "", PAYJP_API_KEY |-> "", PAYJP_PROFILE |-> ""]
NoFile == [status |-> "missing", default_profile |-> <<>>, format |-> <<>>,
           profiles |-> {}]
\* cfg before config.Init or config.Get assigned it
NilConfig == [loaded |-> FALSE, DefaultProfile |-> "", Format |-> "", Profiles |-> {}]
\* client before client.Init assigned it
NilClient == [set |-> FALSE, key |-> ""]
\* No directory and no process saving (outside the runs of Save)
NoDisk == [dir |-> FALSE, config |-> 0, tmp |-> 0, files |-> << >>, old |-> << >>]
NoProcs == << >>
\* The nil error
NilError == [type |-> "nil", status |-> 0]
\* An error of the API (*payjp.Error) with its HTTP status, and any other error
PayjpError(st) == [type |-> "payjp", status |-> st]
OtherError == [type |-> "other", status |-> 0]

\* (only the status 500 taken for a server error)
IsServerError_Only500(st) == st = 500
\* The default case of HandleError's switch: payjpErr.Status >= 500
IsServerError(st) == st >= 500

\* util.HandleError: the exit code of an error
HandleError(e) ==
    IF e.type = "nil" THEN ExitSuccess
    ELSE IF e.type = "payjp"
    THEN CASE e.status = 400 -> ExitRequestError
           [] e.status = 401 -> ExitAuthError
           [] e.status = 402 -> ExitPaymentError
           [] e.status = 404 -> ExitNotFoundError
           [] e.status = 429 -> ExitRateLimitError
           [] OTHER -> IF IsServerError(e.status) THEN ExitServerError
                       ELSE ExitGeneralError
    ELSE ExitGeneralError

\* The errors HandleError is run on: nil, errors of the API with these HTTP
\* statuses, and an error that is not the API's
Statuses == {0, 200, 302, 400, 401, 402, 403, 404, 409, 422, 429, 499, 500, 501, 502, 503, 599}
Errors == {NilError, OtherError} \cup {PayjpError(st) : st \in Statuses}

Result(o, d, f, t, hk, fm, r) ==
    /\ op' = o
    /\ data' = d
    /\ format' = f
    /\ text' = t
    /\ headers' = hk.headers
    /\ keys' = hk.keys
    /\ formatter' = fm
    /\ stdout' = r.stdout
    /\ err' = r.err
    /\ panicked' = r.panicked
    /\ UNCHANGED <<tz, cliVars, saveVars>>

\* A call of the one-shot run
Ran(o, d, f, t, hk, fm, r) ==
    /\ Result(o, d, f, t, hk, fm, r)
    /\ UNCHANGED log

Init ==
    /\ tz \in TimeZones
    /\ op = "init"
    /\ data = VInvalid
    /\ format = ""
    /\ text = <<>>
    /\ headers = <<>>
    /\ keys = <<>>
    /\ formatter = ""
    /\ stdout = <<>>
    /\ err = NoError
    /\ panicked = FALSE
    /\ log = <<>>
    /\ pc = "idle"
    /\ argv = NoArgv
    /\ env = NoEnv
    /\ cfgfile = NoFile
    /\ cfg = NilConfig
    /\ client = NilClient
    /\ rerr = "nil"
    /\ exit = -1
    /\ apierr = NilError
    /\ code = -1
    /\ sent = <<>>
    /\ disk = NoDisk
    /\ procs = NoProcs

\* formatFieldValue(v)
CallFormatFieldValue ==
    /\ op = "init"
    /\ \E v \in FieldValues :
        Ran("formatFieldValue", v, "", formatFieldValue(v, tz), NoHeaders, "", Nothing)

\* getTableHeaders(v)
CallGetTableHeaders ==
    /\ op = "init"
    /\ \E v \in ShapeValues :
        Ran("getTableHeaders", v, "", <<>>, getTableHeaders(v), "", Nothing)

\* extractID(data)
CallExtractID ==
    /\ op = "init"
    /\ \E d \in IDValues :
        Ran("extractID", d, "", extractID(d), NoHeaders, "", Nothing)

\* NewFormatter(format)
CallNewFormatter ==
    /\ op = "init"
    /\ \E f \in FormatNames :
        Ran("NewFormatter", VInvalid, f, <<>>, NoHeaders, NewFormatter(f), Nothing)

\* Output(format, data): NewFormatter(format).Format(data)
Output ==
    /\ op = "init"
    /\ \E f \in FormatNames, d \in Results :
        Ran("Output", d, f, <<>>, NoHeaders, NewFormatter(f),
            Render(NewFormatter(f), d, tz))

\* util.MaskAPIKey
Stars == <<"*", "*", "*", "*">>
MaskAPIKey(key) ==
    IF Len(key) < MaskMinLen THEN Stars
    ELSE SubSeq(key, 1, MaskPrefix) \o Stars
         \o SubSeq(key, Len(key) - MaskSuffix + 1, Len(key))

\* The keys MaskAPIKey is run on: the first n bytes of a test key
SampleKey ==
    <<"s", "k", "_", "t", "e", "s", "t", "_", "0", "1", "2", "3", "4", "5",
      "6", "7", "8", "9">>
APIKeys == {SubSeq(SampleKey, 1, n) : n \in 0..Len(SampleKey)}

\* MaskAPIKey(key)
CallMaskAPIKey ==
    /\ op = "init"
    /\ \E k \in APIKeys :
        Ran("MaskAPIKey", VStr(k), "", MaskAPIKey(k), NoHeaders, "", Nothing)

\* HandleError(err)
CallHandleError ==
    /\ op = "init"
    /\ \E e \in Errors :
        /\ op' = "HandleError"
        /\ apierr' = e
        /\ code' = HandleError(e)
        /\ UNCHANGED <<tz, data, format, text, headers, keys, formatter, stdout,
                       err, panicked, log, pc, argv, env, cfgfile, cfg, client,
                       rerr, exit, sent, saveVars>>

Next ==
    \/ CallHandleError
    \/ CallMaskAPIKey
    \/ CallFormatFieldValue
    \/ CallGetTableHeaders
    \/ CallExtractID
    \/ CallNewFormatter
    \/ Output

Spec == Init /\ [][Next]_vars

-----------------------------------------------------------------------------
(* Repeated calls.  The program is run again and again, each run in the    *)
(* environment it finds (the local time zone comes from TZ and the system  *)
(* settings), and the functions of the package are called on values they   *)
(* may have been called on before.  The log keeps what each call was given *)
(* and what it returned.                                                   *)

\* A call whose arguments and results are appended to the log
Logged(o, d, t, hk) ==
    /\ Result(o, d, "", t, hk, "", Nothing)
    /\ log' = Append(log, [op |-> o, data |-> d, text |-> t,
                           headers |-> hk.headers, keys |-> hk.keys])

\* The values the repeated calls are made on
RepeatFieldValues ==
    {VInt(0), VInt(TsLow), VInt(1234567890), VPtr(VInt(TsHigh - 1)),
     VStr(AsciiText(StrLimit + 1)), VFloat(150), VNilIface, VMap(2)}
RepeatShapes ==
    {Record(S, FALSE, 1) : S \in {{1, 2}, {5, 6, 7, 12}, {4, 10}, {8, 9, 11}}}
RepeatRecords ==
    {IDRecord(c, FALSE) : c \in {[k \in 1..3 |-> 1], [k \in 1..3 |-> k], [k \in 1..3 |-> 2]}}
    \cup {VPtr(Record({3, 7}, FALSE, 1)), VNilPtr}

\* formatFieldValue(v), once more
RepeatFormatFieldValue ==
    /\ Len(log) < MaxCalls
    /\ \E v \in RepeatFieldValues :
        Logged("formatFieldValue", v, formatFieldValue(v, tz), NoHeaders)

\* getTableHeaders(v), once more
RepeatGetTableHeaders ==
    /\ Len(log) < MaxCalls
    /\ \E v \in RepeatShapes :
        Logged("getTableHeaders", v, <<>>, getTableHeaders(v))

\* extractID(data), once more
RepeatExtractID ==
    /\ Len(log) < MaxCalls
    /\ \E d \in RepeatRecords :
        Logged("extractID", d, extractID(d), NoHeaders)

\* The program ends and is started again, in another time zone
NewRun ==
    /\ op # "init"
    /\ Len(log) < MaxCalls
    /\ tz' \in TimeZones \ {tz}
    /\ op' = "init"
    /\ data' = VInvalid
    /\ text' = <<>>
    /\ headers' = <<>>
    /\ keys' = <<>>
    /\ UNCHANGED <<format, formatter, stdout, err, panicked, log, cliVars, saveVars>>

NextRepeat ==
    \/ RepeatFormatFieldValue
    \/ RepeatGetTableHeaders
    \/ RepeatExtractID
    \/ NewRun

SpecRepeat == Init /\ [][NextRepeat]_vars

-----------------------------------------------------------------------------
(* Reading texts back, for the properties below *)

IsDigits(s) == s # <<>> /\ \A i \in 1..Len(s) : s[i] \in Range(Digits)

RECURSIVE ParseNat(_)
ParseNat(s) ==
    IF s = <<>> THEN 0
    ELSE ParseNat(SubSeq(s, 1, Len(s) - 1)) * 10 + (IndexOf(s[Len(s)], Digits) - 1)

\* t is the base-10 numeral of n: an optional minus sign and digits without
\* leading zeros
IsDecimalOf(t, n) ==
    /\ t # <<>>
    /\ IF Head(t) = "-"
       THEN n < 0 /\ IsDigits(Tail(t)) /\ Tail(t)[1] # "0" /\ ParseNat(Tail(t)) = -n
       ELSE n >= 0 /\ IsDigits(t) /\ (Len(t) > 1 => t[1] # "0") /\ ParseNat(t) = n

\* The day number of a civil date
DaysFromCivil(y0, m, d) ==
    LET y   == IF m <= 2 THEN y0 - 1 ELSE y0
        era == y \div 400
        yoe == y - era * 400
        doy == (153 * (IF m > 2 THEN m - 3 ELSE m + 9) + 2) \div 5 + d - 1
        doe == yoe * 365 + yoe \div 4 - yoe \div 100 + doy
    IN  era * 146097 + doe - 719468

\* t has the layout YYYY-MM-DD HH:MM:SS
HasTimestampLayout(t) ==
    /\ Len(t) = 19
    /\ t[5] = "-" /\ t[8] = "-" /\ t[11] = " " /\ t[14] = ":" /\ t[17] = ":"
    /\ \A i \in (1..19) \ {5, 8, 11, 14, 17} : t[i] \in Range(Digits)

\* t is YYYY-MM-DD HH:MM:SS of the Unix time n in the zone off
IsTimestampOf(t, n, off) ==
    /\ HasTimestampLayout(t)
    /\ LET year == ParseNat(SubSeq(t, 1, 4))
           mon  == ParseNat(SubSeq(t, 6, 7))
           day  == ParseNat(SubSeq(t, 9, 10))
           hh   == ParseNat(SubSeq(t, 12, 13))
           mm   == ParseNat(SubSeq(t, 15, 16))
           ss   == ParseNat(SubSeq(t, 18, 19))
       IN  /\ mon \in 1..12 /\ day \in 1..31 /\ hh < 24 /\ mm < 60 /\ ss < 60
           /\ DaysFromCivil(year, mon, day) * 86400 + hh * 3600 + mm * 60 + ss
                = n + off

\* The signed integer formatFieldValue was given, directly or behind a pointer
IsIntArg == \/ data.kind = "int"
            \/ data.kind = "ptr" /\ ~data.nil /\ data.elem.kind = "int"
IntArg == IF data.kind = "int" THEN data.n ELSE data.elem.n

-----------------------------------------------------------------------------
(* One run of the program: payjp <command> [arguments] [flags].  cobra      *)
(* checks the number of arguments, runs the root command's                 *)
(* PersistentPreRunE, checks the required flags and runs the command's     *)
(* RunE; Execute turns a returned error into the exit status.              *)

\* config.Init: the defaults (viper.SetDefault) overlaid with what the file
\* sets
LoadConfig(file) ==
    [loaded |-> TRUE,
     DefaultProfile |-> IF file.default_profile # <<>> THEN file.default_profile[1]
                        ELSE "default",
     Format |-> IF file.format # <<>> THEN file.format[1] ELSE "table",
     Profiles |-> file.profiles]

\* config.Get: cfg, or the built-in configuration when cfg is nil
Get(c) ==
    IF c.loaded THEN c
    ELSE [loaded |-> TRUE, DefaultProfile |-> "default", Format |-> "table",
          Profiles |-> {}]

\* cfg.Profiles[name]: the profile and whether there is one
HasProfile(c, name) == \E q \in c.Profiles : q.name = name
Profile(c, name) == CHOOSE q \in c.Profiles : q.name = name

\* (the profile asked before the environment variable)
GetAPIKey_ProfileFirst(e, c) ==
    LET name == IF e.PAYJP_PROFILE = "" THEN Get(c).DefaultProfile ELSE e.PAYJP_PROFILE
    IN  IF HasProfile(Get(c), name) THEN Profile(Get(c), name).api_key
        ELSE e.PAYJP_API_KEY
\* config.GetAPIKey
GetAPIKey(e, c) ==
    IF e.PAYJP_API_KEY # "" THEN e.PAYJP_API_KEY
    ELSE
      LET name == IF e.PAYJP_PROFILE = "" THEN Get(c).DefaultProfile ELSE e.PAYJP_PROFILE
      IN  IF HasProfile(Get(c), name) THEN Profile(Get(c), name).api_key ELSE ""

\* config.GetOutputFormat
GetOutputFormat(e, c) ==
    IF e.PAYJP_OUTPUT # "" THEN e.PAYJP_OUTPUT ELSE Get(c).Format

\* (the --output flag asked before --quiet)
getOutputFormat_OutputFirst(a, e, c) ==
    IF a.output # <<>> THEN a.output[1]
    ELSE IF a.quiet THEN "quiet"
    ELSE GetOutputFormat(e, c)
\* getOutputFormat of package cmd: a.output is empty unless --output was
\* given (outputFmtChanged)
getOutputFormat(a, e, c) ==
    IF a.quiet THEN "quiet"
    ELSE IF a.output # <<>> THEN a.output[1]
    ELSE GetOutputFormat(e, c)

\* (an amount of zero let through)
ValidateAmount_NotNegative(n) == n >= 0
\* util.ValidateAmount: whether it returns nil
ValidateAmount(n) == n > 0
\* util.ValidateCurrency: whether it returns nil
ValidateCurrency(c) == ToLower(c) \in {<<"j", "p", "y">>, <<"u", "s", "d">>}
\* util.ValidateInterval
ValidateInterval(i) == i \in {<<"m", "o", "n", "t", "h">>, <<"y", "e", "a", "r">>}

\* strconv.ParseInt(s, 10, 64) succeeds: an optional sign and digits
IsIntText(t) ==
    LET u == IF t # <<>> /\ Head(t) \in {"+", "-"} THEN Tail(t) ELSE t
    IN  IsDigits(u)
\* time.Parse(time.RFC3339, s) succeeds: YYYY-MM-DDTHH:MM:SS and Z or an
\* offset +hh:mm, -hh:mm
IsRFC3339(t) ==
    /\ Len(t) \in {20, 25}
    /\ t[5] = "-" /\ t[8] = "-" /\ t[11] = "T" /\ t[14] = ":" /\ t[17] = ":"
    /\ \A i \in (1..19) \ {5, 8, 11, 14, 17} : t[i] \in Range(Digits)
    /\ ParseNat(SubSeq(t, 6, 7)) \in 1..12 /\ ParseNat(SubSeq(t, 9, 10)) \in 1..31
    /\ ParseNat(SubSeq(t, 12, 13)) < 24 /\ ParseNat(SubSeq(t, 15, 16)) < 60
    /\ ParseNat(SubSeq(t, 18, 19)) < 60
    /\ IF Len(t) = 20 THEN t[20] = "Z"
       ELSE /\ t[20] \in {"+", "-"} /\ t[23] = ":"
            /\ \A i \in {21, 22, 24, 25} : t[i] \in Range(Digits)
\* util.ParseTimestamp returns no error
ParseTimestampOK(t) == t = <<>> \/ IsIntText(t) \/ IsRFC3339(t)

\* cobra.ExactArgs(n) of the command (-1: no Args, any number is taken)
Arity(kind) ==
    IF kind \in {"create", "plansCreate", "list", "configShow"} THEN -1 ELSE 1

\* (no command taken for one of the group config)
IsConfigCommand_None(kind) == FALSE
\* cmd.Parent().Name() == "config": a command of the group config
IsConfigCommand(kind) == kind \in {"configShow"}

\* What the API returns when it succeeds: the charge ch_1, a list of
\* charges; and what the delete commands hand to outputResult
ResourceID == <<"c", "h", "_", "1">>
ChargeResult == VPtr(Record({2, 5, 7}, FALSE, 1))
ListResult(n) == Collection({2, 5, 7}, FALSE, n, "ptr", 0)
DeletedMap == VMap(2)

\* The command lines, environments and configuration files of the runs
Commands ==
    {[kind |-> "get", nargs |-> 1], [kind |-> "get", nargs |-> 0],
     [kind |-> "list", nargs |-> 0],
     [kind |-> "create", nargs |-> 0],
     [kind |-> "plansCreate", nargs |-> 0],
     [kind |-> "configShow", nargs |-> 0],
     [kind |-> "customersDelete", nargs |-> 1],
     [kind |-> "customersDelete", nargs |-> 2],
     [kind |-> "subscriptionsDelete", nargs |-> 1]}
CreateFlags ==
    {[amountSet |-> TRUE, amount |-> 1000, currency |-> <<"j", "p", "y">>],
     [amountSet |-> TRUE, amount |-> 50, currency |-> <<"U", "S", "D">>],
     [amountSet |-> FALSE, amount |-> 0, currency |-> <<"j", "p", "y">>],
     [amountSet |-> TRUE, amount |-> 0, currency |-> <<"j", "p", "y">>],
     [amountSet |-> TRUE, amount |-> 1000, currency |-> <<"e", "u", "r">>]}
SinceFlags ==
    {<<>>, <<"1", "7", "0", "0", "0", "0", "0", "0", "0", "0">>,
     <<"2", "0", "2", "4", "-", "0", "1", "-", "0", "2", "T", "0", "3", ":",
       "0", "4", ":", "0", "5", "Z">>,
     <<"y", "e", "s", "t", "e", "r", "d", "a", "y">>}
PlanFlags ==
    {[amountSet |-> TRUE, amount |-> 1000, currency |-> <<"j", "p", "y">>],
     [amountSet |-> TRUE, amount |-> -5, currency |-> <<"j", "p", "y">>],
     [amountSet |-> TRUE, amount |-> 500, currency |-> <<"e", "u", "r">>]}
Intervals == {<<"m", "o", "n", "t", "h">>, <<"M", "o", "n", "t", "h">>}
NoCreateFlags == [amountSet |-> FALSE, amount |-> 0, currency |-> <<>>]
FlagsOf(c) ==
    CASE c.kind = "create" -> CreateFlags
      [] c.kind = "plansCreate" -> PlanFlags
      [] OTHER -> {NoCreateFlags}
IntervalsOf(c) == IF c.kind = "plansCreate" THEN Intervals ELSE {<<>>}
SinceOf(c) == IF c.kind = "list" THEN SinceFlags ELSE {<<>>}
CommandLines ==
    UNION {{[kind |-> c.kind, nargs |-> c.nargs, amountSet |-> f.amountSet,
             amount |-> f.amount, currency |-> f.currency, interval |-> i,
             since |-> t, quiet |-> q, output |-> o, apiKey |-> k] :
               f \in FlagsOf(c), i \in IntervalsOf(c), t \in SinceOf(c),
               q \in BOOLEAN, o \in {<<>>, <<"json">>}, k \in {"", "sk_flag"}} :
           c \in Commands}
Environments ==
    [PAYJP_OUTPUT : {"", "yaml"}, PAYJP_API_KEY : {"", "sk_env"},
     PAYJP_PROFILE : {"", "prod"}]
ProfileSets ==
    {{}, {[name |-> "default", api_key |-> "sk_default", mode |-> "test"]},
     {[name |-> "default", api_key |-> "", mode |-> "test"],
      [name |-> "prod", api_key |-> "sk_prod", mode |-> "live"]}}
ConfigFiles ==
    {NoFile, [NoFile EXCEPT !.status = "unreadable"]}
    \cup {[status |-> "ok", default_profile |-> d, format |-> f, profiles |-> ps] :
            d \in {<<>>, <<"prod">>}, f \in {<<>>, <<"json">>, <<"">>},
            ps \in ProfileSets}
APIErrors == {PayjpError(401), PayjpError(404), PayjpError(503), OtherError}

\* The process starts
InitCLI ==
    /\ tz = 32400
    /\ op = "init"
    /\ data = VInvalid
    /\ format = ""
    /\ text = <<>>
    /\ headers = <<>>
    /\ keys = <<>>
    /\ formatter = ""
    /\ stdout = <<>>
    /\ err = NoError
    /\ panicked = FALSE
    /\ log = <<>>
    /\ pc = "start"
    /\ argv \in CommandLines
    /\ env \in Environments
    /\ cfgfile \in ConfigFiles
    /\ cfg = NilConfig
    /\ client = NilClient
    /\ rerr = "nil"
    /\ exit = -1
    /\ apierr = NilError
    /\ code = -1
    /\ sent = <<>>
    /\ disk = NoDisk
    /\ procs = NoProcs

\* A hook or handler returns the error e to cobra, which returns it to Execute
ReturnError(e) ==
    /\ rerr' = e
    /\ pc' = "returned"

\* cobra's ValidateArgs, before any hook: the command's Args
ValidateArgs ==
    /\ pc = "start"
    /\ IF Arity(argv.kind) \in {-1, argv.nargs}
       THEN pc' = "prerun" /\ UNCHANGED rerr
       ELSE ReturnError("accepts n arg(s)")
    /\ UNCHANGED <<tz, renderVars, saveVars, log, argv, env, cfgfile, cfg,
                   client, exit, apierr, code, sent>>

\* The key client.Init ends with: the one the option WithAPIKey sets
\* (given for a non-empty --api-key) over config.GetAPIKey()
InitAPIKey(a, e, c) == IF a.apiKey # "" THEN a.apiKey ELSE GetAPIKey(e, c)

\* rootCmd.PersistentPreRunE: nothing for a command of the group config;
\* else config.Init, then client.Init
PersistentPreRunE ==
    /\ pc = "prerun"
    /\ IF IsConfigCommand(argv.kind)
       THEN /\ pc' = "prerunE"
            /\ UNCHANGED <<cfg, client, rerr>>
       ELSE IF cfgfile.status = "unreadable"
       THEN /\ ReturnError("failed to initialize config")
            /\ UNCHANGED <<cfg, client>>
       ELSE /\ cfg' = LoadConfig(cfgfile)
            /\ IF InitAPIKey(argv, env, cfg') = ""
               THEN /\ ReturnError("API key is required")
                    /\ UNCHANGED client
               ELSE /\ client' = [set |-> TRUE, key |-> InitAPIKey(argv, env, cfg')]
                    /\ pc' = "run"
                    /\ UNCHANGED rerr
    /\ UNCHANGED <<tz, renderVars, saveVars, log, argv, env, cfgfile, exit,
                   apierr, code, sent>>

\* The PreRunE of the commands of the group config: config.Init
PreRunE ==
    /\ pc = "prerunE"
    /\ IF cfgfile.status = "unreadable"
       THEN ReturnError("error reading config file") /\ UNCHANGED cfg
       ELSE cfg' = LoadConfig(cfgfile) /\ pc' = "run" /\ UNCHANGED rerr
    /\ UNCHANGED <<tz, renderVars, saveVars, log, argv, env, cfgfile, client,
                   exit, apierr, code, sent>>

\* handleError(err): HandleError's code is the exit status
HandleErrorExit(e) ==
    /\ apierr' = e
    /\ code' = HandleError(e)
    /\ exit' = HandleError(e)
    /\ pc' = "exited"
    /\ UNCHANGED <<tz, renderVars, saveVars, log, argv, env, cfgfile, cfg, client, rerr>>

\* return outputResult(d): Output(getOutputFormat(), d); a panic ends the
\* process with the status 2 of the Go runtime
OutputResult(d) ==
    LET f == getOutputFormat(argv, env, cfg)
        r == Render(NewFormatter(f), d, tz)
    IN  /\ op' = "Output"
        /\ data' = d
        /\ format' = f
        /\ formatter' = NewFormatter(f)
        /\ stdout' = r.stdout
        /\ err' = r.err
        /\ panicked' = r.panicked
        /\ IF r.panicked THEN pc' = "exited" /\ exit' = 2 /\ UNCHANGED rerr
           ELSE /\ ReturnError(IF r.err.msg = "nil" THEN "nil" ELSE r.err.msg)
                /\ UNCHANGED exit
        /\ UNCHANGED <<tz, text, headers, keys, saveVars, log, argv, env,
                       cfgfile, cfg, client, apierr, code>>

\* A handler returns err, or nil, without having printed
Return(e) ==
    /\ ReturnError(e)
    /\ UNCHANGED <<tz, renderVars, saveVars, log, argv, env, cfgfile, cfg, client, exit,
                   apierr, code>>

\* fmt.Println(id); return nil
PrintID(id) ==
    /\ stdout' = Append(stdout, Line(id))
    /\ ReturnError("nil")
    /\ UNCHANGED <<tz, op, data, format, text, headers, keys, formatter, err,
                   panicked, saveVars, log, argv, env, cfgfile, cfg, client,
                   exit, apierr, code>>

\* What a handler does: the API request it sends (req, "": none), and
\* then return err (nil included), handleError(err), return
\* outputResult(d), or fmt.Println of a text and return nil
ReturnOf(e) ==
    [do |-> "return", err |-> e, apierr |-> NilError, d |-> VInvalid, id |-> <<>>,
     req |-> ""]
HandleErrorOf(e) == [ReturnOf("nil") EXCEPT !.do = "handleError", !.apierr = e]
OutputResultOf(d) == [ReturnOf("nil") EXCEPT !.do = "outputResult", !.d = d]
PrintlnOf(id) == [ReturnOf("nil") EXCEPT !.do = "Println", !.id = id]
\* The handler called the API (request r) and went on as in os
Called(r, os) == {[o EXCEPT !.req = r] : o \in os}
\* if err != nil { handleError(err); return nil }
Failed == {HandleErrorOf(e) : e \in APIErrors}

\* chargesGetCmd.RunE (and the other get commands): the ways it can end
GetRunE(a) ==
    Called("Charge.Retrieve", Failed \cup {OutputResultOf(ChargeResult)})

\* chargesCreateCmd.RunE, after cobra's check of the required flag --amount
CreateRunE(a) ==
    IF ~a.amountSet THEN {ReturnOf("required flag(s) not set")}
    ELSE IF ~ValidateAmount(a.amount) THEN {ReturnOf("amount must be greater than 0")}
    ELSE IF ~ValidateCurrency(a.currency) THEN {ReturnOf("invalid currency")}
    ELSE Called("Charge.Create", Failed \cup {OutputResultOf(ChargeResult)})

\* plansCreateCmd.RunE
PlansCreateRunE(a) ==
    IF ~a.amountSet THEN {ReturnOf("required flag(s) not set")}
    ELSE IF ~ValidateAmount(a.amount) THEN {ReturnOf("amount must be greater than 0")}
    ELSE IF ~ValidateCurrency(a.currency) THEN {ReturnOf("invalid currency")}
    ELSE IF ~ValidateInterval(a.interval) THEN {ReturnOf("invalid interval")}
    ELSE Called("Plan.Create", Failed \cup {OutputResultOf(ChargeResult)})

\* chargesListCmd.RunE (and the other list commands)
ListRunE(a) ==
    IF ~ParseTimestampOK(a.since) THEN {ReturnOf("invalid timestamp format")}
    ELSE Called("Charge.List",
                Failed \cup {OutputResultOf(ListResult(n)) : n \in {0, 2}})

\* customersDeleteCmd.RunE (cards and plans delete alike)
CustomersDeleteRunE(a) ==
    Called("Customer.Delete",
           Failed \cup {IF a.quiet THEN ReturnOf("nil") ELSE OutputResultOf(DeletedMap)})

\* subscriptionsDeleteCmd.RunE
SubscriptionsDeleteRunE(a) ==
    Called("Subscription.Delete",
           Failed \cup {IF a.quiet THEN PrintlnOf(ResourceID)
                        ELSE OutputResultOf(DeletedMap)})

\* configShowCmd.RunE: prints the configuration and returns nil
ConfigurationHeading ==
    <<"C", "o", "n", "f", "i", "g", "u", "r", "a", "t", "i", "o", "n", ":">>
ConfigShowRunE(a) == {PrintlnOf(ConfigurationHeading)}

\* cobra runs the RunE of the command named on the command line
RunE ==
    /\ pc = "run"
    /\ \E o \in CASE argv.kind = "get" -> GetRunE(argv)
                  [] argv.kind = "create" -> CreateRunE(argv)
                  [] argv.kind = "plansCreate" -> PlansCreateRunE(argv)
                  [] argv.kind = "list" -> ListRunE(argv)
                  [] argv.kind = "customersDelete" -> CustomersDeleteRunE(argv)
                  [] argv.kind = "subscriptionsDelete" -> SubscriptionsDeleteRunE(argv)
                  [] argv.kind = "configShow" -> ConfigShowRunE(argv) :
          /\ sent' = IF o.req = "" THEN sent ELSE Append(sent, o.req)
          /\ CASE o.do = "return" -> Return(o.err)
               [] o.do = "handleError" -> HandleErrorExit(o.apierr)
               [] o.do = "outputResult" -> OutputResult(o.d)
               [] o.do = "Println" -> PrintID(o.id)

\* Execute: os.Exit(1) when rootCmd.Execute returned an error; else main
\* returns and the status is 0
Execute ==
    /\ pc = "returned"
    /\ exit' = IF rerr # "nil" THEN ExitGeneralError ELSE 0
    /\ pc' = "exited"
    /\ UNCHANGED <<tz, renderVars, saveVars, log, argv, env, cfgfile, cfg,
                   client, rerr, apierr, code, sent>>

NextCLI ==
    \/ ValidateArgs
    \/ PersistentPreRunE
    \/ PreRunE
    \/ RunE
    \/ Execute

SpecCLI == InitCLI /\ [][NextCLI]_vars

-----------------------------------------------------------------------------
(* The commands of the group config, run one after the other on one         *)
(* configuration file.  Every command is a run of the program: its PreRunE *)
(* loads the file (config.Init), its RunE changes the configuration in     *)
(* memory and saves it.  Save either replaces the file or fails and leaves *)
(* it as it was (its steps are the subject of the next part).  The keys    *)
(* given to these commands are texts, as the commands look at their        *)
(* characters.                                                             *)

\* What Save writes: every key of the configuration
FileOf(c) ==
    [status |-> "ok", default_profile |-> <<c.DefaultProfile>>,
     format |-> <<c.Format>>, profiles |-> c.Profiles]

\* cfg.Profiles[name] = p
WithProfile(c, p) ==
    [c EXCEPT !.Profiles = {q \in c.Profiles : q.name # p.name} \cup {p}]

\* config.SetAPIKey, before its Save: the profile, or the zero Profile when
\* there is none of that name, with the key replaced
SetAPIKey(c, name, key) ==
    WithProfile(c, IF HasProfile(c, name)
                   THEN [Profile(c, name) EXCEPT !.api_key = key]
                   ELSE [name |-> name, api_key |-> key, mode |-> ""])

\* config.SetProfile, before its Save
SetProfile(c, name, key, mode) ==
    WithProfile(c, [name |-> name, api_key |-> key, mode |-> mode])

\* (csv taken for an output format)
OutputFormats_WithCSV == {"json", "table", "yaml", "csv"}
\* The values config set output takes
OutputFormats == {"json", "table", "yaml"}

\* The mode set-profile detects from the key
LivePrefix == <<"s", "k", "_", "l", "i", "v", "e", "_">>
DetectMode(key) ==
    IF Len(key) > Len(LivePrefix) /\ SubSeq(key, 1, Len(LivePrefix)) = LivePrefix
    THEN "live" ELSE "test"

\* The outcome of a RunE of the group config on the loaded configuration
\* c: the error it returns without saving, or the configuration it saves
SaveOf(c) == [save |-> TRUE, cfg |-> c, err |-> "nil"]
\* (the file written although the command is refused)
Refuse_AfterSave(c, e) == [save |-> TRUE, cfg |-> c, err |-> e]
Refuse(c, e) == [save |-> FALSE, cfg |-> c, err |-> e]

\* configSetCmd.RunE
ConfigSetRunE(c, key, value) ==
    CASE key = "api-key" ->
           SaveOf(SetAPIKey(c, IF c.DefaultProfile = "" THEN "default"
                               ELSE c.DefaultProfile, value))
      [] key = "output" ->
           IF value \notin OutputFormats THEN Refuse(c, "invalid output format")
           ELSE SaveOf([c EXCEPT !.Format = value])
      [] OTHER -> Refuse(c, "unknown configuration key")

\* configSetProfileCmd.RunE
ConfigSetProfileRunE(c, name, key, mode) ==
    IF key = <<>> THEN Refuse(c, "--api-key is required")
    ELSE IF mode = "" THEN SaveOf(SetProfile(c, name, key, DetectMode(key)))
    ELSE IF mode # "test" /\ mode # "live" THEN Refuse(c, "invalid mode")
    ELSE SaveOf(SetProfile(c, name, key, mode))

\* configUseProfileCmd.RunE: config.UseProfile
ConfigUseProfileRunE(c, name) ==
    IF ~HasProfile(c, name) THEN Refuse(c, "profile not found")
    ELSE SaveOf([c EXCEPT !.DefaultProfile = name])

\* The commands given
MaxCommands == 3
TestKey == <<"s", "k", "_", "t", "e", "s", "t", "_", "1">>
LiveKey == <<"s", "k", "_", "l", "i", "v", "e", "_", "1">>
SetArguments ==
    {<<"api-key", TestKey>>, <<"output", "json">>, <<"output", "yaml">>,
     <<"output", "csv">>, <<"output", "">>, <<"color", "true">>}
SetProfileArguments ==
    {<<"prod", k, m>> : k \in {<<>>, LiveKey, LivePrefix}, m \in {"", "test", "Live"}}
UseProfileArguments == {"prod", "default", "staging"}

\* The PreRunE of the command: config.Init; its error ends the run
PreRunEThen(o) ==
    IF cfgfile.status = "unreadable"
    THEN Refuse(NilConfig, "error reading config file")
    ELSE o

\* The end of a run with outcome o: the configuration in memory is o.cfg;
\* Save, when the command calls it, replaces the file or fails
ConfigRun(cmd, args, o) ==
    /\ cfg' = o.cfg
    /\ IF ~o.save THEN rerr' = o.err /\ UNCHANGED cfgfile
       ELSE \/ rerr' = "nil" /\ cfgfile' = FileOf(o.cfg)
            \/ rerr' = "error saving" /\ UNCHANGED cfgfile
    /\ log' = Append(log, [op |-> cmd, args |-> args, before |-> cfgfile])
    /\ UNCHANGED <<tz, renderVars, saveVars, pc, argv, env, client, exit,
                   apierr, code, sent>>

\* payjp config set <key> <value>
ConfigSet ==
    /\ Len(log) < MaxCommands
    /\ \E a \in SetArguments :
        ConfigRun("set", a,
                  PreRunEThen(ConfigSetRunE(LoadConfig(cfgfile), a[1], a[2])))

\* payjp config set-profile <name> --api-key <key> --mode <mode>
ConfigSetProfile ==
    /\ Len(log) < MaxCommands
    /\ \E a \in SetProfileArguments :
        ConfigRun("set-profile", a,
                  PreRunEThen(ConfigSetProfileRunE(LoadConfig(cfgfile),
                                                   a[1], a[2], a[3])))

\* payjp config use-profile <name>
ConfigUseProfile ==
    /\ Len(log) < MaxCommands
    /\ \E a \in UseProfileArguments :
        ConfigRun("use-profile", <<a>>,
                  PreRunEThen(ConfigUseProfileRunE(LoadConfig(cfgfile), a)))

NextConfig ==
    \/ ConfigSet
    \/ ConfigSetProfile
    \/ ConfigUseProfile

\* No configuration file yet: the default configuration
InitConfig == Init /\ tz = 0

SpecConfig == InitConfig /\ [][NextConfig]_vars

-----------------------------------------------------------------------------
(* config.Save, step by step, in one process or in two processes that save *)
(* to the same path.  The directory has two names, the configuration file  *)
(* and the temporary file configPath + ".tmp", which is the same name for  *)
(* every process; a name leads to a file (0: no such name) and files keep  *)
(* their content while they are renamed.  A content is a sequence of       *)
(* blocks.  Every system call may fail for a reason of its own (fault); a  *)
(* call on a name that is not there fails in any case.                     *)

MaxSavers == 2
Savers == 1..MaxSavers

\* What process p saves: configurations of different lengths, of at most
\* MaxBlocks blocks
MaxBlocks == 3
Content(p) == [i \in 1..(MaxBlocks + 1 - p) |-> IF p = 1 THEN "a" ELSE "b"]
\* The configuration file before any Save
Previous == <<"o", "l", "d", "!">>

\* The content the name n leads to (<<>> with no such name)
ContentAt(d, n) == IF n = 0 THEN <<>> ELSE d.files[n]

\* open(temp, O_WRONLY|O_CREATE|O_TRUNC): the file of that name emptied, or
\* a new empty file under that name
OpenTrunc(d) ==
    IF d.tmp # 0 THEN [d EXCEPT !.files[d.tmp] = <<>>]
    ELSE [d EXCEPT !.files = Append(d.files, <<>>), !.tmp = Len(d.files) + 1]

\* write at offset 0 of the open file f: the bytes behind the written ones
\* stay
WriteAt(d, f, bytes) ==
    [d EXCEPT !.files[f] = bytes \o SubSeq(d.files[f], Len(bytes) + 1, Len(d.files[f]))]

\* Process p goes on at pc2 (and its other fields as given)
Goes(p, pc2) == [procs EXCEPT ![p].pc = pc2]
\* A call of process p failed: Save will return e, after os.Remove(temp)
\* when cleanup is TRUE; fault: the failure came from outside
Fails_NoRemove(p, e, cleanup, fault) ==
    [procs EXCEPT ![p].pc = "done", ![p].res = e, ![p].fd = 0,
                  ![p].fault = procs[p].fault \/ fault]
Fails(p, e, cleanup, fault) ==
    [procs EXCEPT ![p].pc = IF cleanup THEN "remove" ELSE "done",
                  ![p].res = e, ![p].fd = 0,
                  ![p].fault = procs[p].fault \/ fault]

Elsewhere == <<tz, renderVars, cliVars, log>>

\* The configuration file exists or not; no process saves yet
InitSave ==
    /\ tz = 0
    /\ op = "init"
    /\ data = VInvalid
    /\ format = ""
    /\ text = <<>>
    /\ headers = <<>>
    /\ keys = <<>>
    /\ formatter = ""
    /\ stdout = <<>>
    /\ err = NoError
    /\ panicked = FALSE
    /\ log = <<>>
    /\ pc = "idle"
    /\ argv = NoArgv
    /\ env = NoEnv
    /\ cfgfile = NoFile
    /\ cfg = NilConfig
    /\ client = NilClient
    /\ rerr = "nil"
    /\ exit = -1
    /\ apierr = NilError
    /\ code = -1
    /\ sent = <<>>
    /\ \E had \in BOOLEAN :
         disk = [dir |-> had, config |-> IF had THEN 1 ELSE 0, tmp |-> 0,
                 files |-> IF had THEN <<Previous>> ELSE <<>>,
                 old |-> IF had THEN Previous ELSE <<>>]
    /\ procs = [p \in Savers |->
                  [pc |-> "idle", fd |-> 0, res |-> "", installed |-> <<"none">>,
                   fault |-> FALSE]]

\* A process calls Save
CallSave ==
    \E p \in Savers :
        /\ procs[p].pc = "idle"
        /\ procs' = Goes(p, "MkdirAll")
        /\ UNCHANGED <<disk, Elsewhere>>

\* os.MkdirAll(configDir, 0700)
MkdirAll ==
    \E p \in Savers :
        /\ procs[p].pc = "MkdirAll"
        /\ \/ disk' = [disk EXCEPT !.dir = TRUE] /\ procs' = Goes(p, "OpenFile")
           \/ /\ ~disk.dir
              /\ procs' = Fails(p, "error creating config directory", FALSE, TRUE)
              /\ UNCHANGED disk
        /\ UNCHANGED Elsewhere

\* os.OpenFile(tempFile, O_WRONLY|O_CREATE|O_TRUNC, 0600) and f.Close()
OpenFile ==
    \E p \in Savers :
        /\ procs[p].pc = "OpenFile"
        /\ \/ disk.dir /\ disk' = OpenTrunc(disk) /\ procs' = Goes(p, "WriteOpen")
           \/ /\ procs' = Fails(p, "error creating temp config file", FALSE, disk.dir)
              /\ UNCHANGED disk
        /\ UNCHANGED Elsewhere

\* viper.WriteConfigAs(tempFile), first half: it opens the file, emptied
WriteOpen ==
    \E p \in Savers :
        /\ procs[p].pc = "WriteOpen"
        /\ \/ /\ disk.dir
              /\ disk' = OpenTrunc(disk)
              /\ procs' = [Goes(p, "Write") EXCEPT ![p].fd = OpenTrunc(disk).tmp]
           \/ /\ procs' = Fails(p, "error writing config file", TRUE, disk.dir)
              /\ UNCHANGED disk
        /\ UNCHANGED Elsewhere

\* viper.WriteConfigAs(tempFile), second half: it writes the configuration
\* to the open file and closes it; a failing write leaves a part written
Write ==
    \E p \in Savers :
        /\ procs[p].pc = "Write"
        /\ \/ /\ disk' = WriteAt(disk, procs[p].fd, Content(p))
              /\ procs' = [Goes(p, "Chmod") EXCEPT ![p].fd = 0]
           \/ /\ disk' = WriteAt(disk, procs[p].fd, SubSeq(Content(p), 1, 1))
              /\ procs' = Fails(p, "error writing config file", TRUE, TRUE)
        /\ UNCHANGED Elsewhere

\* os.Chmod(tempFile, 0600)
Chmod ==
    \E p \in Savers :
        /\ procs[p].pc = "Chmod"
        /\ \/ disk.tmp # 0 /\ procs' = Goes(p, "Rename")
           \/ procs' = Fails(p, "error setting config file permissions", TRUE,
                            disk.tmp # 0)
        /\ UNCHANGED <<disk, Elsewhere>>

\* os.Rename(tempFile, configPath); Save returns nil after it
Rename ==
    \E p \in Savers :
        /\ procs[p].pc = "Rename"
        /\ \/ /\ disk.tmp # 0
              /\ disk' = [disk EXCEPT !.config = disk.tmp, !.tmp = 0]
              /\ procs' = [procs EXCEPT ![p].pc = "done", ![p].res = "nil",
                                        ![p].installed = ContentAt(disk, disk.tmp)]
           \/ /\ procs' = Fails(p, "error renaming config file", TRUE, disk.tmp # 0)
              /\ UNCHANGED disk
        /\ UNCHANGED Elsewhere

\* os.Remove(tempFile) on the way out of a failed Save; its error is ignored
Remove ==
    \E p \in Savers :
        /\ procs[p].pc = "remove"
        /\ disk' = [disk EXCEPT !.tmp = 0]
        /\ procs' = Goes(p, "done")
        /\ UNCHANGED Elsewhere

NextSave ==
    \/ CallSave
    \/ MkdirAll
    \/ OpenFile
    \/ WriteOpen
    \/ Write
    \/ Chmod
    \/ Rename
    \/ Remove

SpecSave == InitSave /\ [][NextSave]_vars

-----------------------------------------------------------------------------
(* C1 *)

-----------------------------------------------------------------------------
(* C2 *)

\* The longest prefix of s that holds at most k whole characters
CharPrefix(s, k) ==
    LET ends == {m \in 0..Len(s) :
                   /\ RuneCount(SubSeq(s, 1, m)) <= k
                   /\ m = Len(s) \/ s[m + 1] \notin ContinuationBytes}
    IN  SubSeq(s, 1, CHOOSE m \in ends : \A x \in ends : x <= m)

\* C2 as stated: a string of at most 50 characters is rendered unchanged,
\* a longer one as its first 47 characters followed by "...", so the text
\* never has more than 50 characters.
C2_FiftyCharacters ==
    (op = "formatFieldValue" /\ data.kind = "string") =>
        /\ RuneCount(data.s) <= 50 => text = data.s
        /\ RuneCount(data.s) > 50 => text = CharPrefix(data.s, 47) \o <<".", ".", ".">>
        /\ RuneCount(text) <= 50

-----------------------------------------------------------------------------
(* C3 *)

\* An absent or null value: the zero Value, a nil pointer, a nil interface
IsNullValue(v) ==
    \/ v.kind = "invalid"
    \/ v.kind \in {"ptr", "interface"} /\ v.nil

\* C3 as stated: formatFieldValue returns a text for every value, and every
\* absent or null value is rendered as the empty string.
C3_NullIsEmpty ==
    op = "formatFieldValue" =>
        /\ ~panicked
        /\ IsNullValue(data) => text = <<>>

-----------------------------------------------------------------------------
(* C4, C5, C6 *)

\* The priority list as the specification gives it
WellKnown ==
    << <<"I", "D">>, <<"A", "m", "o", "u", "n", "t">>,
       <<"C", "u", "r", "r", "e", "n", "c", "y">>, <<"S", "t", "a", "t", "u", "s">>,
       <<"P", "a", "i", "d">>, <<"C", "a", "p", "t", "u", "r", "e", "d">>,
       <<"R", "e", "f", "u", "n", "d", "e", "d">>, <<"E", "m", "a", "i", "l">>,
       <<"D", "e", "s", "c", "r", "i", "p", "t", "i", "o", "n">>, <<"N", "a", "m", "e">>,
       <<"I", "n", "t", "e", "r", "v", "a", "l">>,
       <<"C", "r", "e", "a", "t", "e", "d", "A", "t">>,
       <<"C", "r", "e", "a", "t", "e", "d">> >>

\* getTableHeaders ran on a record
ShapeCall == op = "getTableHeaders" /\ data.kind = "struct"
\* The declared field names of that record, in declaration order
Declared == [i \in 1..Len(StructFields(data)) |-> StructFields(data)[i].name]
IsDeclared(n) == n \in Range(Declared)
HasWellKnown == \E n \in Range(WellKnown) : IsDeclared(n)
StartsUpper(n) == n[1] \in Range(Upper)
FirstSix == SubSeq(Declared, 1, IF Len(Declared) < 6 THEN Len(Declared) ELSE 6)

\* C4: for a record shape with at least one well-known field name the keys
\* are exactly the well-known names present, in the order of the priority
\* list (not of declaration), with one header per key; records with id,
\* amount, currency and status give the headers ID, AMOUNT, CURRENCY, STATUS.
C4_PriorityOrder ==
    (ShapeCall /\ HasWellKnown) =>
        /\ keys = SelectSeq(WellKnown, IsDeclared)
        /\ Len(headers) = Len(keys)
        /\ keys = SubSeq(WellKnown, 1, 4) =>
             headers = << <<"I", "D">>, <<"A", "M", "O", "U", "N", "T">>,
                          <<"C", "U", "R", "R", "E", "N", "C", "Y">>,
                          <<"S", "T", "A", "T", "U", "S">> >>

\* A record declaring Amount, Status, ID, Currency in that order gave the
\* keys ID, Amount, Currency, Status
C4_Witness ==
    /\ ShapeCall
    /\ Declared = << <<"A", "m", "o", "u", "n", "t">>, <<"S", "t", "a", "t", "u", "s">>,
                     <<"I", "D">>, <<"C", "u", "r", "r", "e", "n", "c", "y">> >>
    /\ keys = SubSeq(WellKnown, 1, 4)
    /\ headers[2] = <<"A", "M", "O", "U", "N", "T">>

-----------------------------------------------------------------------------
(* C7, C8, C9 *)

\* Output ran the table renderer
TableCall == op = "Output" /\ formatter = "TableFormatter"
\* Its argument is a collection, or a pointer to one
IsCollection ==
    \/ data.kind = "slice"
    \/ data.kind = "ptr" /\ ~data.nil /\ data.elem.kind = "slice"
Elements == IF data.kind = "slice" THEN data.elems ELSE data.elem.elems
\* A record: a struct or a pointer to one
IsRecord(v) ==
    \/ v.kind = "struct"
    \/ v.kind = "ptr" /\ ~v.nil /\ v.elem.kind = "struct"
IsNilPointer(v) == v.kind = "ptr" /\ v.nil

C8_EmptyCollection ==
    (TableCall /\ IsCollection /\ Len(Elements) = 0) =>
        /\ ~panicked
        /\ err.msg = "nil"
        /\ Len(stdout) = 1
        /\ stdout[1].kind = "line"
        /\ stdout[1].text = <<"N", "o", " ", "i", "t", "e", "m", "s", " ",
                              "f", "o", "u", "n", "d", ".">>

\* An empty collection of record pointers was rendered as a table
C8_Witness ==
    /\ TableCall /\ data.kind = "slice" /\ data.elemType = "ptr" /\ data.elems = <<>>
    /\ Len(stdout) = 1

\* The inputs the table renderer is made for: a record, or a collection
\* whose elements are all records
IsRenderable ==
    \/ IsRecord(data)
    \/ IsCollection /\ \A i \in 1..Len(Elements) : IsRecord(Elements[i])

\* C9 as stated: the table renderer returns a usage error for every input
\* that is neither a record nor a collection of records (a map, a scalar, a
\* nil pointer, a non-empty collection whose elements are not records).
C9_UsageError ==
    (TableCall /\ ~IsRenderable) => (~panicked /\ err.msg # "nil")

-----------------------------------------------------------------------------
(* C10 *)

\* C10: NewFormatter maps json, yaml and quiet to their own renderers and
\* every other format name (table, the empty name, names in another letter
\* case) to the table renderer; it returns a renderer for every name.
C10_Dispatch ==
    op \in {"NewFormatter", "Output"} =>
        /\ formatter \in {"JSONFormatter", "YAMLFormatter", "QuietFormatter",
                          "TableFormatter"}
        /\ formatter = "JSONFormatter" <=> format = "json"
        /\ formatter = "YAMLFormatter" <=> format = "yaml"
        /\ formatter = "QuietFormatter" <=> format = "quiet"
        /\ formatter = "TableFormatter" <=> format \notin {"json", "yaml", "quiet"}

\* The name JSON, in upper case, got the table renderer
C10_Witness ==
    op = "NewFormatter" /\ format = "JSON" /\ formatter = "TableFormatter"

-----------------------------------------------------------------------------
(* C11 *)

\* extractID ran on a record: a struct, or a pointer to one
IDCall == op = "extractID" /\ IsRecord(data)
IDFields == IF data.kind = "ptr" THEN StructFields(data.elem) ELSE StructFields(data)
\* The record declares the field n with a value of string type
HasStringField(n) ==
    \E i \in 1..Len(IDFields) : IDFields[i].name = n /\ IDFields[i].val.kind = "string"
StringFieldValue(n) ==
    IDFields[CHOOSE i \in 1..Len(IDFields) : IDFields[i].name = n].val.s

\* C11: extractID examines the field names ID, Id, id in that order and
\* returns the value of the first one that exists and is of string type (a
\* present but non-string ID does not stop the search); when none
\* qualifies, or the input is not a record, it returns the empty string.
C11_FirstStringID ==
    op = "extractID" =>
        IF ~IsRecord(data) THEN text = <<>>
        ELSE IF HasStringField(<<"I", "D">>) THEN text = StringFieldValue(<<"I", "D">>)
        ELSE IF HasStringField(<<"I", "d">>) THEN text = StringFieldValue(<<"I", "d">>)
        ELSE IF HasStringField(<<"i", "d">>) THEN text = StringFieldValue(<<"i", "d">>)
        ELSE text = <<>>

\* A record declaring id and Id as strings and ID as an integer, id first:
\* the integer ID did not stop the search and Id won over id
C11_Witness ==
    /\ IDCall
    /\ Len(IDFields) = 3
    /\ IDFields[1].name = <<"i", "d">> /\ IDFields[1].val.kind = "string"
    /\ IDFields[3].name = <<"I", "D">> /\ IDFields[3].val.kind = "int"
    /\ HasStringField(<<"I", "d">>)
    /\ text = <<"c", "h", "_", "2">>

-----------------------------------------------------------------------------
(* C12 *)

\* Two calls of the log were given the same function and the same value
SameCall(i, j) == log[i].op = log[j].op /\ log[i].data = log[j].data
SameResult(i, j) ==
    /\ log[i].text = log[j].text
    /\ log[i].headers = log[j].headers
    /\ log[i].keys = log[j].keys

\* C12 as stated: for the same record extractID, getTableHeaders and
\* formatFieldValue return the same result on every call, whatever calls
\* were made before and whatever the state of the process and of its
\* environment.
C12_Deterministic ==
    \A i \in 1..Len(log) : \A j \in 1..Len(log) :
        SameCall(i, j) => SameResult(i, j)

-----------------------------------------------------------------------------
(* C13 *)

\* The type of a Go value, as the decoder is given it: the kinds, and for a
\* struct the declared fields.  (The element type of a nil pointer or of an
\* empty slice is not needed: null and [] decode to nil and to no elements.)
RECURSIVE TypeOf(_)
TypeOf(v) ==
    CASE v.kind = "ptr" ->
           [kind |-> "ptr", elem |-> IF v.nil THEN [kind |-> "invalid"] ELSE TypeOf(v.elem)]
      [] v.kind = "struct" /\ v.isTime -> [kind |-> "time"]
      [] v.kind = "struct" /\ ~v.isTime ->
           [kind |-> "struct",
            fields |-> [i \in 1..Len(v.fields) |->
                          [name |-> v.fields[i].name, tag |-> v.fields[i].tag,
                           type |-> TypeOf(v.fields[i].val)]]]
      [] v.kind = "slice" ->
           [kind |-> "slice", elemType |-> v.elemType,
            elem |-> IF v.elems = <<>> THEN [kind |-> "invalid"] ELSE TypeOf(v.elems[1])]
      [] OTHER -> [kind |-> v.kind]

\* The zero time.Time: January 1 of the year 1, 00:00:00 UTC
ZeroTime == [kind |-> "struct", isTime |-> TRUE, yearOne |-> TRUE]

\* The zero value of a type
RECURSIVE Zero(_)
Zero(T) ==
    CASE T.kind = "bool" -> VBool(FALSE)
      [] T.kind = "int" -> VInt(0)
      [] T.kind = "uint" -> VUint(0)
      [] T.kind = "float" -> VFloat(0)
      [] T.kind = "string" -> VStr(<<>>)
      [] T.kind = "ptr" -> VNilPtr
      [] T.kind = "interface" -> VNilIface
      [] T.kind = "chan" -> VNilChan
      [] T.kind = "map" -> VMap(0)
      [] T.kind = "slice" -> VSlice(T.elemType, <<>>)
      [] T.kind = "time" -> ZeroTime
      [] T.kind = "struct" ->
           VStruct([i \in 1..Len(T.fields) |->
                      Field(T.fields[i].name, T.fields[i].tag, Zero(T.fields[i].type))])
      [] OTHER -> VInvalid

\* The name of a json tag: what stands before its first comma
TagName(tag) ==
    LET commas == {i \in 1..Len(tag) : tag[i] = ","}
    IN  IF commas = {} THEN tag
        ELSE SubSeq(tag, 1, (CHOOSE i \in commas : \A k \in commas : i <= k) - 1)
\* The fields encoding/json reads and writes, and the member name of one
IsJSONField(f) == f.name[1] \in Range(Upper) /\ f.tag # <<"-">>
JSONName(f) == IF TagName(f.tag) # <<>> THEN TagName(f.tag) ELSE f.name

\* The number a JSON number text stands for, in hundredths
ParseHundredths(t) ==
    LET neg  == t # <<>> /\ Head(t) = "-"
        u    == IF neg THEN Tail(t) ELSE t
        dots == {i \in 1..Len(u) : u[i] = "."}
        dot  == IF dots = {} THEN Len(u) + 1 ELSE CHOOSE i \in dots : TRUE
        frac == SubSeq(u, dot + 1, Len(u)) \o <<"0", "0">>
        a    == ParseNat(SubSeq(u, 1, dot - 1)) * 100 + ParseNat(SubSeq(frac, 1, 2))
    IN  IF neg THEN -a ELSE a
ParseInt(t) == IF t # <<>> /\ Head(t) = "-" THEN -ParseNat(Tail(t)) ELSE ParseNat(t)

\* The Unix time of an RFC 3339 text YYYY-MM-DDTHH:MM:SS followed by Z or
\* by +hh:mm or -hh:mm
ParseRFC3339(t) ==
    LET civil == DaysFromCivil(ParseNat(SubSeq(t, 1, 4)), ParseNat(SubSeq(t, 6, 7)),
                               ParseNat(SubSeq(t, 9, 10))) * 86400
                 + ParseNat(SubSeq(t, 12, 13)) * 3600 + ParseNat(SubSeq(t, 15, 16)) * 60
                 + ParseNat(SubSeq(t, 18, 19))
        zone  == IF t[20] = "Z" THEN 0
                 ELSE (IF t[20] = "-" THEN -1 ELSE 1)
                      * (ParseNat(SubSeq(t, 21, 22)) * 3600 + ParseNat(SubSeq(t, 24, 25)) * 60)
    IN  civil - zone

\* What json.Unmarshal stores in an interface{}: a number as a float64
Generic(doc) ==
    CASE doc.t = "null" -> VNilIface
      [] doc.t = "bool" -> VIface(VBool(doc.b))
      [] doc.t = "number" -> VIface(VFloat(ParseHundredths(doc.text)))
      [] doc.t = "string" -> VIface(VStr(doc.s))
      [] doc.t = "object" -> VIface(VMap(IF "size" \in DOMAIN doc THEN doc.size
                                         ELSE Len(doc.members)))
      [] doc.t = "array" -> VIface(VSlice("interface", <<>>))

\* json.Unmarshal of a document into a fresh value of the type T
RECURSIVE Decode(_, _)
Decode(doc, T) ==
    IF doc.t = "null" THEN Zero(T)
    ELSE
      CASE T.kind = "ptr" -> VPtr(Decode(doc, T.elem))
        [] T.kind = "interface" -> Generic(doc)
        [] T.kind = "bool" -> VBool(doc.b)
        [] T.kind = "int" -> VInt(ParseInt(doc.text))
        [] T.kind = "uint" -> VUint(ParseInt(doc.text))
        [] T.kind = "float" -> VFloat(ParseHundredths(doc.text))
        [] T.kind = "string" -> VStr(doc.s)
        [] T.kind = "time" -> VTime(ParseRFC3339(doc.s))
        [] T.kind = "map" -> VMap(doc.size)
        [] T.kind = "slice" ->
             VSlice(T.elemType, [i \in 1..Len(doc.items) |-> Decode(doc.items[i], T.elem)])
        [] T.kind = "struct" ->
             VStruct([i \in 1..Len(T.fields) |->
                LET f    == T.fields[i]
                    hits == {k \in 1..Len(doc.members) :
                               ToLower(doc.members[k].key) = ToLower(JSONName(f))}
                IN  Field(f.name, f.tag,
                          IF IsJSONField(f) /\ hits # {}
                          THEN Decode(doc.members[CHOOSE k \in hits : TRUE].val, f.type)
                          ELSE Zero(f.type))])

\* What is left of a value after the round trip: the fields that are not
\* exported or are tagged "-" hold their zero value, and a number held in
\* an interface{} is a float64
RECURSIVE Surviving(_)
Surviving(v) ==
    CASE v.kind = "ptr" /\ ~v.nil -> VPtr(Surviving(v.elem))
      [] v.kind = "interface" /\ ~v.nil ->
           IF v.elem.kind \in {"int", "uint"} THEN VIface(VFloat(100 * v.elem.n))
           ELSE VIface(Surviving(v.elem))
      [] v.kind = "struct" /\ ~v.isTime ->
           VStruct([i \in 1..Len(v.fields) |->
                      Field(v.fields[i].name, v.fields[i].tag,
                            IF IsJSONField(v.fields[i]) THEN Surviving(v.fields[i].val)
                            ELSE Zero(TypeOf(v.fields[i].val)))])
      [] OTHER -> v

\* Output ran the JSON renderer on a record
JSONCall == op = "Output" /\ formatter = "JSONFormatter" /\ IsRecord(data)
\* The text it wrote, decoded into a fresh value of the record's type
Decoded == Decode(stdout[1].doc, TypeOf(data))

-----------------------------------------------------------------------------
(* C14, C15 *)

\* The display name of a field as the specification gives it: the name of
\* its json tag when it has one, else its identifier with an underscore
\* before every upper-case letter after the first, in lower case
RECURSIVE Underscored(_)
Underscored(s) ==
    IF Len(s) <= 1 THEN s
    ELSE Underscored(SubSeq(s, 1, Len(s) - 1))
         \o (IF s[Len(s)] \in Range(Upper) THEN <<"_", s[Len(s)]>> ELSE <<s[Len(s)]>>)
HasTagName(f) == TagName(f.tag) # <<>> /\ TagName(f.tag) # <<"-">>
DisplayName(f) ==
    IF HasTagName(f) THEN TagName(f.tag) ELSE ToLower(Underscored(f.name))

\* The table renderer ran on one record
DetailCall == TableCall /\ IsRecord(data)
DetailDeclared == IF data.kind = "ptr" THEN StructFields(data.elem) ELSE StructFields(data)
\* The positions of the exported fields, and the k-th of them
ExportedAt == {i \in 1..Len(DetailDeclared) : StartsUpper(DetailDeclared[i].name)}
KthExported(k) ==
    DetailDeclared[CHOOSE i \in ExportedAt :
                     Cardinality({x \in ExportedAt : x < i}) = k - 1]

\* C14: the single-record table view emits exactly one (FIELD, VALUE) row
\* for every exported field of the record, in declaration order, and no row
\* for an unexported field; neither the priority list nor the limit of six
\* fields applies.
C14_OneRowPerExportedField ==
    DetailCall =>
        /\ ~panicked /\ err.msg = "nil"
        /\ Len(stdout) = 1 /\ stdout[1].kind = "table"
        /\ stdout[1].header = << <<"F", "I", "E", "L", "D">>, <<"V", "A", "L", "U", "E">> >>
        /\ Len(stdout[1].rows) = Cardinality(ExportedAt)
        /\ \A k \in 1..Len(stdout[1].rows) :
             /\ Len(stdout[1].rows[k]) = 2
             /\ stdout[1].rows[k][1] = DisplayName(KthExported(k))

\* A record of eight exported fields, its identifier declared sixth: eight
\* rows, the identifier in the sixth
C14_Witness ==
    /\ DetailCall
    /\ Len(DetailDeclared) = 8 /\ Cardinality(ExportedAt) = 8
    /\ DetailDeclared[6].name = <<"I", "D">>
    /\ Len(stdout[1].rows) = 8
    /\ stdout[1].rows[1][1] = <<"o", "b", "j", "e", "c", "t">>
    /\ stdout[1].rows[6] = << <<"i", "d">>, <<"c", "h", "_", "1">> >>

\* The declared field of the record getTableHeaders ran on that has the name n
DeclaredField(n) ==
    StructFields(data)[CHOOSE i \in 1..Len(StructFields(data)) :
                         StructFields(data)[i].name = n]
UpperCased(s) ==
    [i \in 1..Len(s) |->
        IF s[i] \in Range(Lower) THEN Upper[IndexOf(s[i], Lower)] ELSE s[i]]

\* C15: the display name of a field is the name of its json tag when it has
\* one, else its identifier with an underscore before every upper-case
\* letter after the first and then lower-cased; the detail view shows that
\* name, and the column headers of the list view are that name upper-cased.
C15_DisplayNames ==
    /\ ShapeCall =>
          /\ Len(headers) = Len(keys)
          /\ \A i \in 1..Len(keys) :
               headers[i] = UpperCased(DisplayName(DeclaredField(keys[i])))
    /\ (DetailCall /\ ~panicked /\ err.msg = "nil") =>
          \A k \in 1..Len(stdout[1].rows) :
             stdout[1].rows[k][1] = DisplayName(KthExported(k))

\* A shape declaring Object with the tag name object and FailureCode without
\* a tag: the headers OBJECT and FAILURE_CODE
C15_Witness ==
    /\ ShapeCall
    /\ keys = << <<"O", "b", "j", "e", "c", "t">>,
                 <<"F", "a", "i", "l", "u", "r", "e", "C", "o", "d", "e">> >>
    /\ DeclaredField(keys[2]).tag = <<>>
    /\ headers = << <<"O", "B", "J", "E", "C", "T">>,
                    <<"F", "A", "I", "L", "U", "R", "E", "_", "C", "O", "D", "E">> >>

-----------------------------------------------------------------------------
(* C19 *)

\* HandleError was given an error (or nil) and returned
HandledError == op = "HandleError"
IsAPIError == apierr.type = "payjp"

\* C19 as stated: HandleError maps nil to 0, an API error with status 400
\* to 5, 401 to 4, 402 to 6, 404 to 7, 429 to 8, 500 to 9, and every other
\* error to 1; it returns 0 only when the error is nil.
C19_DocumentedCodes ==
    HandledError =>
        /\ code = IF apierr.type = "nil" THEN 0
                  ELSE IF IsAPIError /\ apierr.status = 400 THEN 5
                  ELSE IF IsAPIError /\ apierr.status = 401 THEN 4
                  ELSE IF IsAPIError /\ apierr.status = 402 THEN 6
                  ELSE IF IsAPIError /\ apierr.status = 404 THEN 7
                  ELSE IF IsAPIError /\ apierr.status = 429 THEN 8
                  ELSE IF IsAPIError /\ apierr.status = 500 THEN 9
                  ELSE 1
        /\ code = 0 <=> apierr.type = "nil"

\* C19 as amended: HandleError maps nil to 0, an API error with status 400
\* to 5, 401 to 4, 402 to 6, 404 to 7, 429 to 8, every API error with a
\* status of 500 or more (500, 502, 503, ...) to 9, and every other error
\* (an API error with another status, an error that is not the API's) to 1;
\* it returns 0 only when the error is nil.
C19_ServerErrorsFrom500 ==
    HandledError =>
        /\ code = IF apierr.type = "nil" THEN 0
                  ELSE IF IsAPIError /\ apierr.status = 400 THEN 5
                  ELSE IF IsAPIError /\ apierr.status = 401 THEN 4
                  ELSE IF IsAPIError /\ apierr.status = 402 THEN 6
                  ELSE IF IsAPIError /\ apierr.status = 404 THEN 7
                  ELSE IF IsAPIError /\ apierr.status = 429 THEN 8
                  ELSE IF IsAPIError /\ apierr.status >= 500 THEN 9
                  ELSE 1
        /\ code = 0 <=> apierr.type = "nil"

\* An API error with status 503 was given the code 9
C19_Witness ==
    HandledError /\ IsAPIError /\ apierr.status = 503 /\ code = 9

-----------------------------------------------------------------------------
(* C16 *)

\* outputResult has rendered the result of the command of this run
OutputRan == pc \in {"returned", "exited"} /\ op = "Output"

\* The format the command line, the environment and the configuration file
\* ask for, in the order of precedence
ExpectedFormat ==
    IF argv.quiet THEN "quiet"
    ELSE IF argv.output # <<>> THEN argv.output[1]
    ELSE IF env.PAYJP_OUTPUT # "" THEN env.PAYJP_OUTPUT
    ELSE IF cfgfile.format # <<>> THEN cfgfile.format[1]
    ELSE "table"

\* C16: the format a command's result is rendered in is "quiet" when
\* --quiet is set, else the value of --output when the flag was given, else
\* PAYJP_OUTPUT when it is not empty, else the output.format of the
\* configuration file, and "table" when the file sets none
C16_FormatPrecedence ==
    OutputRan => /\ format = ExpectedFormat
                 /\ formatter = NewFormatter(ExpectedFormat)

\* Neither flag given, PAYJP_OUTPUT = yaml and output.format: json in the
\* file: the result is rendered as YAML
C16_Witness ==
    /\ OutputRan
    /\ ~argv.quiet /\ argv.output = <<>>
    /\ env.PAYJP_OUTPUT = "yaml" /\ cfgfile.format = <<"json">>
    /\ format = "yaml" /\ formatter = "YAMLFormatter"
    /\ stdout # <<>>

-----------------------------------------------------------------------------
(* C17 *)

\* The run was given --quiet and the command succeeded: the API call
\* returned no error and the process ended with status 0
QuietSucceeded ==
    /\ pc = "exited" /\ exit = 0
    /\ argv.quiet
    /\ apierr = NilError

\* The identifiers of the resources the command acted on: the one named
\* on the command line or returned by the API, or those of the listed items
ActedOn ==
    IF argv.kind = "list"
    THEN [j \in 1..Len(data.elems) |-> <<"c", "h", "_">> \o FormatInt(j)]
    ELSE <<ResourceID>>

\* C17: with --quiet a command that succeeds, be it create, get, list or
\* delete, prints the identifier of each resource it acted on, one per
\* line, and nothing else
C17_QuietPrintsOnlyID ==
    QuietSucceeded => stdout = [i \in 1..Len(ActedOn) |-> Line(ActedOn[i])]

-----------------------------------------------------------------------------
(* C18 *)

\* PersistentPreRunE has loaded the configuration and called client.Init
ClientInitCalled == cfg.loaded /\ ~IsConfigCommand(argv.kind)

\* The profile the environment and the configuration file name
NamedProfile ==
    IF env.PAYJP_PROFILE # "" THEN env.PAYJP_PROFILE
    ELSE IF cfgfile.default_profile # <<>> THEN cfgfile.default_profile[1]
    ELSE "default"

\* The key the command line, the environment and the configuration file
\* give, in the order of precedence
ExpectedKey ==
    IF argv.apiKey # "" THEN argv.apiKey
    ELSE IF env.PAYJP_API_KEY # "" THEN env.PAYJP_API_KEY
    ELSE IF \E q \in cfgfile.profiles : q.name = NamedProfile
         THEN (CHOOSE q \in cfgfile.profiles : q.name = NamedProfile).api_key
    ELSE ""

\* C18: the client is built with the value of --api-key when it is not
\* empty, else with PAYJP_API_KEY when it is not empty, else with the
\* api_key of the profile named by PAYJP_PROFILE, or by default_profile
\* when PAYJP_PROFILE is empty; when that gives the empty string
\* client.Init returns an error and there is no client
C18_APIKeyPrecedence ==
    /\ ClientInitCalled =>
         IF ExpectedKey = ""
         THEN ~client.set /\ rerr = "API key is required"
         ELSE client = [set |-> TRUE, key |-> ExpectedKey]
    /\ ~ClientInitCalled => ~client.set

\* No --api-key and no PAYJP_API_KEY, PAYJP_PROFILE = prod: the client has
\* the key of the profile prod although another profile is the default one
C18_Witness ==
    /\ ClientInitCalled
    /\ argv.apiKey = "" /\ env.PAYJP_API_KEY = "" /\ env.PAYJP_PROFILE = "prod"
    /\ cfgfile.default_profile = <<>>
    /\ client = [set |-> TRUE, key |-> "sk_prod"]

-----------------------------------------------------------------------------
(* C20 *)

\* The process has ended
Exited == pc = "exited"

\* The command failed on its command line: the number of arguments, a
\* required flag that is missing, a rejected --amount, --currency or
\* timestamp value
ArgumentError ==
    rerr \in {"accepts n arg(s)", "required flag(s) not set",
              "amount must be greater than 0", "invalid currency",
              "invalid timestamp format"}

\* The command failed on the configuration: the file cannot be read, or
\* no API key is configured
ConfigError == rerr \in {"failed to initialize config", "API key is required"}

\* C20: a command that fails because of an argument error makes the
\* process exit with status 2, one that fails because of a configuration
\* error with status 3
C20_ArgumentAndConfigExitCodes ==
    Exited => /\ ArgumentError => exit = ExitArgumentError
              /\ ConfigError => exit = ExitConfigError

-----------------------------------------------------------------------------
(* C22 *)

\* The table renderer drew the table of a collection with elements
ListTable ==
    /\ TableCall /\ IsCollection /\ Len(Elements) >= 1
    /\ ~panicked
    /\ Len(stdout) >= 1 /\ stdout[1].kind = "table"

\* Element r of the collection, a pointer followed
Element(r) ==
    IF Elements[r].kind = "ptr" /\ ~Elements[r].nil THEN Elements[r].elem
    ELSE Elements[r]
\* The fields of element r (none when it is not a record)
ElementFields(r) ==
    IF Element(r).kind = "struct" THEN StructFields(Element(r)) ELSE <<>>
\* The fields selected for the columns: those of the first element
Selected == getTableHeaders(Element(1)).keys
\* The classified value of the field named n of element r, the empty text
\* when the element has no such field
CellOf(r, n) ==
    IF \E k \in 1..Len(ElementFields(r)) : ElementFields(r)[k].name = n
    THEN formatFieldValue(
           ElementFields(r)[CHOOSE k \in 1..Len(ElementFields(r)) :
                                       ElementFields(r)[k].name = n].val, tz)
    ELSE <<>>

-----------------------------------------------------------------------------
(* C23 *)

\* The API call of the command succeeded and the command handed its result
\* to outputResult
ResultRendered ==
    /\ pc = "exited"
    /\ sent # <<>> /\ apierr = NilError
    /\ op = "Output"

\* C23: when the API call of a command succeeds, rendering the result
\* succeeds in each of the formats json, yaml, table and quiet: the command
\* returns no error and the process ends with status 0, also when a delete
\* command renders its map {id, deleted} as a table
C23_RenderingSucceeds ==
    ResultRendered => /\ ~panicked
                      /\ err = NoError
                      /\ rerr = "nil"
                      /\ exit = 0

-----------------------------------------------------------------------------
(* C29 *)

\* The command of the run belongs to the group config
InConfigGroup == argv.kind = "configShow"
\* cobra stands at the call of the command's RunE
BodyStarts == pc = "run"
\* The body of the command has done something: sent a request, handled an
\* API error, rendered a result or printed
BodyActed ==
    sent # <<>> \/ apierr # NilError \/ op = "Output" \/ stdout # <<>>
\* config.Init or client.Init failed
InitFailed ==
    rerr \in {"failed to initialize config", "error reading config file",
              "API key is required"}

\* C29: the body of a command outside the group config runs, and sends
\* requests, only when config.Init and client.Init have succeeded (the
\* configuration is loaded and the client holds a key); when one of them
\* fails the body never runs; a command of the group config never
\* initialises the client
C29_InitBeforeBody ==
    /\ (BodyStarts \/ BodyActed) /\ ~InConfigGroup =>
          cfg.loaded /\ client.set /\ client.key # ""
    /\ (BodyStarts \/ BodyActed) /\ InConfigGroup => cfg.loaded
    /\ InitFailed => ~BodyStarts /\ ~BodyActed
    /\ InConfigGroup => ~client.set

\* A charge was requested by a run that had loaded the configuration and
\* built the client from the key of the environment
C29_Witness ==
    /\ argv.kind = "create" /\ sent = <<"Charge.Create">>
    /\ cfg.loaded /\ client.set /\ client.key = "sk_env"
    /\ pc = "exited"

-----------------------------------------------------------------------------
(* C30 *)

\* The run is a create command that got past the flags cobra requires
CreateCommand ==
    /\ argv.kind \in {"create", "plansCreate"}
    /\ argv.amountSet
\* An input the command must reject: an amount of zero or less, a currency
\* other than jpy and usd in any case, for a plan an interval other than
\* month and year
LowerOf(b) ==
    IF b \in Range(Upper) THEN Lower[CHOOSE k \in 1..26 : Upper[k] = b] ELSE b
RejectedInput ==
    \/ argv.amount <= 0
    \/ [k \in 1..Len(argv.currency) |-> LowerOf(argv.currency[k])]
          \notin {<<"j", "p", "y">>, <<"u", "s", "d">>}
    \/ /\ argv.kind = "plansCreate"
       /\ argv.interval \notin {<<"m", "o", "n", "t", "h">>, <<"y", "e", "a", "r">>}

\* C30: charges create and plans create check their inputs before they
\* contact the API: with a rejected input the command returns an error
\* and no request is ever sent; no create request is sent otherwise than
\* by a command whose inputs are valid
C30_ValidatedBeforeRequest ==
    /\ CreateCommand /\ RejectedInput =>
          /\ sent = <<>>
          /\ pc \in {"returned", "exited"} /\ cfg.loaded /\ client.set =>
                rerr # "nil"
    /\ (\E k \in 1..Len(sent) : sent[k] \in {"Charge.Create", "Plan.Create"})
          => CreateCommand /\ ~RejectedInput

\* plans create with the interval Month ended with an error, having sent
\* nothing, although the client was ready
C30_Witness ==
    /\ argv.kind = "plansCreate" /\ argv.amount = 1000
    /\ argv.interval = <<"M", "o", "n", "t", "h">>
    /\ client.set
    /\ pc = "exited" /\ exit = 1 /\ rerr = "invalid interval"
    /\ sent = <<>>

-----------------------------------------------------------------------------
(* C28 *)

\* MaskAPIKey was run on a key that has characters
MaskCall == op = "MaskAPIKey" /\ data.s # <<>>
\* Character i of the key can be read in the displayed text: in front of
\* the stars, or behind them
Displayed(i) ==
    LET n     == Len(data.s)
        stars == CHOOSE k \in 0..Len(text) :
                     /\ k + 4 <= Len(text)
                     /\ SubSeq(text, k + 1, k + 4) = <<"*", "*", "*", "*">>
                     /\ \A j \in 0..(k - 1) :
                           SubSeq(text, j + 1, j + 4) # <<"*", "*", "*", "*">>
        back  == Len(text) - stars - 4
    IN  \/ i <= stars /\ text[i] = data.s[i]
        \/ i > n - back /\ text[Len(text) - (n - i)] = data.s[i]

\* C28: for every API key MaskAPIKey hides at least one character: the
\* displayed text does not show every character of the key
C28_HidesACharacter ==
    MaskCall => \E i \in 1..Len(data.s) : ~Displayed(i)

-----------------------------------------------------------------------------
(* C21 *)

\* The last command run, and the configuration file and the configuration
\* in memory it started from
LastRun == log[Len(log)]
ConfigRan(cmd) == log # <<>> /\ LastRun.op = cmd
Before == LastRun.before
LoadedBefore == LoadConfig(Before)
\* The output format the file stores (the default when it stores none)
StoredFormat == LoadConfig(cfgfile).Format

\* C21: config set output with a value other than json, table and yaml
\* returns an error and leaves the configuration in memory and the file
\* as they were; so after any sequence of config commands starting from
\* the default configuration the stored output format is one of the three
C21_OutputFormatValid ==
    /\ (/\ ConfigRan("set") /\ LastRun.args[1] = "output"
        /\ LastRun.args[2] \notin {"json", "table", "yaml"}) =>
          /\ rerr # "nil"
          /\ cfg = LoadedBefore
          /\ cfgfile = Before
    /\ StoredFormat \in {"json", "table", "yaml"}
    /\ cfg.loaded => cfg.Format \in {"json", "table", "yaml"}

\* config set output csv was refused after config set output json had
\* been saved: the file still says json
C21_Witness ==
    /\ Len(log) = 2
    /\ log[1].args = <<"output", "json">>
    /\ ConfigRan("set") /\ LastRun.args = <<"output", "csv">>
    /\ rerr = "invalid output format"
    /\ cfgfile.format = <<"json">>

-----------------------------------------------------------------------------
(* C24 *)

\* The profiles the file stores
StoredProfiles == LoadConfig(cfgfile).Profiles

\* C24: after any sequence of config set api-key, config set-profile and
\* config use-profile commands every stored profile has the mode test or
\* live
C24_ModesTestOrLive ==
    /\ \A q \in StoredProfiles : q.mode \in {"test", "live"}
    /\ cfg.loaded => \A q \in cfg.Profiles : q.mode \in {"test", "live"}

-----------------------------------------------------------------------------
(* C25 *)

\* C25: config use-profile with a name that is no profile returns an
\* error, leaves the default profile and the profiles as they were and
\* does not write the file; when it succeeds the default profile is the
\* name given and the name is a profile
C25_UseProfile ==
    ConfigRan("use-profile") =>
        /\ (\A q \in LoadedBefore.Profiles : q.name # LastRun.args[1]) =>
              /\ rerr = "profile not found"
              /\ cfg = LoadedBefore
              /\ cfgfile = Before
        /\ rerr = "nil" =>
              /\ cfg.DefaultProfile = LastRun.args[1]
              /\ \E q \in cfg.Profiles : q.name = LastRun.args[1]
              /\ cfgfile.default_profile = <<LastRun.args[1]>>
              /\ \E q \in StoredProfiles : q.name = LastRun.args[1]

\* The profile prod was created and made the default one; then
\* use-profile staging was refused and prod is still the default
C25_Witness ==
    /\ Len(log) = 3
    /\ log[1].op = "set-profile" /\ log[2].op = "use-profile"
    /\ log[2].args = <<"prod">> /\ log[3].before.default_profile = <<"prod">>
    /\ ConfigRan("use-profile") /\ LastRun.args = <<"staging">>
    /\ rerr = "profile not found"
    /\ cfgfile.default_profile = <<"prod">>


-----------------------------------------------------------------------------
(* C26 *)

\* What the configuration path leads to now, and whether it is what it was
\* before any Save
ConfigNow == ContentAt(disk, disk.config)
ConfigUntouched == ConfigNow = disk.old /\ ((disk.config = 0) <=> (disk.old = <<>>))
AloneSaver == \A p \in Savers \ {1} : procs[p].pc = "idle"
FailedFromWrite ==
    procs[1].res \in {"error writing config file",
                      "error setting config file permissions",
                      "error renaming config file"}

-----------------------------------------------------------------------------
(* C27 *)

BothReturned == \A p \in Savers : procs[p].pc = "done"
NoFault == \A p \in Savers : ~procs[p].fault
Complete(c) == \E p \in Savers : c = Content(p)

\* C27: two processes saving to the same path, no system call failing for a
\* reason outside the two: when both have returned and one returned nil, the
\* configuration file holds the complete configuration of one of them, and
\* the file a Save that returned nil renamed was completely written
C27_ConcurrentSaves ==
    (BothReturned /\ NoFault) =>
        /\ (\E p \in Savers : procs[p].res = "nil") => Complete(ConfigNow)
        /\ \A p \in Savers : procs[p].res = "nil" => Complete(procs[p].installed)

=============================================================================
